---------------------------- MODULE Spec2Model ----------------------------
(***************************************************************************)
(* A model of the single-user Twitter feed server:                         *)
(*   - the reader/writer mutex built from one mutex and one condition      *)
(*     variable (package lock, README.md lines 161-240),                   *)
(*   - the sorted linked-list feed (package feed, feed.go lines 1-142),    *)
(*   - the lock-free task queue (package queue, feed.go lines 143-278),    *)
(*   - the producer/consumer coordinator (package main, feed.go 279-543).  *)
(*                                                                         *)
(* Four specifications share one set of variables; each leaves the parts   *)
(* it does not use at their constructed values:                            *)
(*   SpecRW     threads calling Lock/Unlock/RLock/RUnlock on one rwmutex   *)
(*   SpecFeed   Add/Remove/Contains/ShowFeed on one feed                   *)
(*   SpecQueue  one enqueuer and several dequeuers on one queue, every     *)
(*              shared-memory access a step of its own                     *)
(*   SpecCoord  the producer and the consumers of main (SpecCoordFair adds *)
(*              the scheduler's fairness)                                  *)
(***************************************************************************)
EXTENDS Integers, Sequences, FiniteSets, Bags, TLC

VARIABLES
    \* ---- rwmutex (README.md 179-191) ----
    readCount,   \* rwmutex.readCount
    rwMu,        \* TRUE while some thread holds rw.cond.L
    rwAt,        \* how many threads stand at each position of the lock's code
    \* ---- feed (feed.go 21-52) ----
    posts,       \* the heap of post structs: node id -> [body, timestamp, next]
    adding,      \* the Add in progress (its walk is over, its link is not), or NoAdd
    last,        \* the feed call that returned last: [op, ts, ret]
    live,        \* history: live[t] iff the last Add(_, t) was not followed by a successful Remove(t)
    fpc,         \* per feed thread: its position inside Add / Remove / Contains / ShowFeed
    floc,        \* per feed thread: the call it makes and the locals of the method
    \* ---- queue (feed.go 164-199) ----
    qhead,       \* queue.head
    qtail,       \* queue.tail
    qn,          \* the heap of task structs: node id -> [byteTask, next]
    qpc,         \* per queue thread: its position inside Enqueue / Dequeue
    qloc,        \* per queue thread: the locals of Enqueue / Dequeue
    enqSeq,      \* history: payloads in the order Enqueue was called with them
    got,         \* history: per dequeuer, the non-sentinel payloads Dequeue returned
    deqCalls,    \* per dequeuer: the number of Dequeue calls started
    \* ---- coordinator (feed.go 298-304, 382-477, 522-539) ----
    nArgs,       \* len(os.Args) - 1: the number of command line arguments
    nWorkers,    \* <number of goroutines>
    blockSize,   \* <block size>
    numOfTasks,  \* *ctx.numOfTasks
    doneBool,    \* *ctx.doneBool
    mutex,       \* the holder of ctx.mutex, or NoOne
    ppc,         \* the producer's position
    cur,         \* the line the producer has scanned
    reqs,        \* history: the lines scanned so far, DONE excluded
    wpc,         \* per worker: its position in consumer()
    wblock,      \* per worker: blockOfTasks
    wi,          \* per worker: the drain loop's i
    wexit,       \* per worker: exit
    wsync,       \* per worker: it has locked ctx.mutex since doneBool was written
    out          \* the bag of responses printed on standard output

rwVars    == <<readCount, rwMu, rwAt>>
feedVars  == <<posts, adding, last, live>>
fcVars    == <<fpc, floc>>
queueVars == <<qhead, qtail, qn>>
qopVars   == <<qpc, qloc, enqSeq, got, deqCalls>>
coordVars == <<nArgs, nWorkers, blockSize, numOfTasks, doneBool, mutex, ppc, cur, reqs,
               wpc, wblock, wi, wexit, wsync, out>>
vars      == <<rwVars, feedVars, fcVars, queueVars, qopVars, coordVars>>

-----------------------------------------------------------------------------
(* Bounds of the model *)

NReaders == 66     \* threads that call RLock/RUnlock in SpecRW
NWriters == 2      \* threads that call Lock/Unlock in SpecRW

-----------------------------------------------------------------------------
(***************************************************************************)
(* The reader/writer mutex.  Threads have no identity in the lock's code,  *)
(* so the state records how many threads stand at each position:           *)
(*   r_idle   outside RLock..RUnlock      w_idle   outside Lock..Unlock    *)
(*   r_held   in RLock, holding cond.L    w_held   in Lock, holding cond.L *)
(*   r_wait   in RLock, parked in Wait    w_wait   in Lock, parked in Wait *)
(*   r_woken  in Wait, signalled, must    w_woken  likewise                *)
(*            re-acquire cond.L                                            *)
(*   reading  returned from RLock         writing  returned from Lock      *)
(*   ru_held  in RUnlock, holding cond.L           (cond.L still held)     *)
(***************************************************************************)

MaxReaders == 64

RWPositions == {"r_idle", "r_held", "r_wait", "r_woken", "reading", "ru_held",
                "w_idle", "w_held", "w_wait", "w_woken", "writing"}

\* for rw.readCount != 0  (Lock)
WriterMustWait_never(rc) == FALSE

WriterMustWait(rc) == rc # 0

\* for rw.readCount > 64  (RLock)
ReaderMustWait_late(rc) == rc > MaxReaders + 1

ReaderMustWait(rc) == rc > MaxReaders

\* one thread steps from position a to position b
RWMove(at, a, b) == [at EXCEPT ![a] = @ - 1, ![b] = @ + 1]

\* cond.Signal(): one parked thread, if there is one, is made runnable.  The
\* results are all the choices of that thread.
RWSignal_none(at) == {at}

RWSignal(at) ==
    LET r == IF at["r_wait"] > 0 THEN {RWMove(at, "r_wait", "r_woken")} ELSE {}
        w == IF at["w_wait"] > 0 THEN {RWMove(at, "w_wait", "w_woken")} ELSE {}
    IN  IF r \cup w = {} THEN {at} ELSE r \cup w

\* the signals of RUnlock once readCount is decremented to rc
RUnlockSignals(at, rc) ==
    LET first == IF rc = 0 THEN RWSignal(at) ELSE {at}
    IN  IF rc <= MaxReaders THEN UNION {RWSignal(a) : a \in first} ELSE first

\* what a step of the lock leaves alone
RWFrame == UNCHANGED <<feedVars, fcVars, queueVars, qopVars, coordVars>>

RWInit ==
    /\ readCount = 0
    /\ rwMu = FALSE
    /\ rwAt = [p \in RWPositions |->
                 IF p = "r_idle" THEN NReaders
                 ELSE IF p = "w_idle" THEN NWriters ELSE 0]

\* Lock(): rw.cond.L.Lock()
LockAcquire ==
    /\ rwAt["w_idle"] > 0 /\ ~rwMu
    /\ rwMu' = TRUE
    /\ rwAt' = RWMove(rwAt, "w_idle", "w_held")
    /\ UNCHANGED readCount
    /\ RWFrame

\* Lock(): for rw.readCount != 0 { rw.cond.Wait() }; Wait unlocks cond.L and parks
LockTest ==
    /\ rwAt["w_held"] > 0
    /\ IF WriterMustWait(readCount)
       THEN rwMu' = FALSE /\ rwAt' = RWMove(rwAt, "w_held", "w_wait")
       ELSE rwMu' = rwMu /\ rwAt' = RWMove(rwAt, "w_held", "writing")
    /\ UNCHANGED readCount
    /\ RWFrame

\* the tail of cond.Wait() in Lock: c.L.Lock() once signalled
LockRewake ==
    /\ rwAt["w_woken"] > 0 /\ ~rwMu
    /\ rwMu' = TRUE
    /\ rwAt' = RWMove(rwAt, "w_woken", "w_held")
    /\ UNCHANGED readCount
    /\ RWFrame

\* Unlock(): rw.cond.Signal(); rw.cond.L.Unlock()
Unlock ==
    /\ rwAt["writing"] > 0
    /\ \E a \in RWSignal(rwAt) : rwAt' = RWMove(a, "writing", "w_idle")
    /\ rwMu' = FALSE
    /\ UNCHANGED readCount
    /\ RWFrame

\* RLock(): rw.cond.L.Lock()
RLockAcquire ==
    /\ rwAt["r_idle"] > 0 /\ ~rwMu
    /\ rwMu' = TRUE
    /\ rwAt' = RWMove(rwAt, "r_idle", "r_held")
    /\ UNCHANGED readCount
    /\ RWFrame

\* RLock(): for rw.readCount > 64 { Wait }; rw.readCount++; rw.cond.L.Unlock()
RLockTest_uncounted ==
    /\ rwAt["r_held"] > 0
    /\ IF ReaderMustWait(readCount)
       THEN /\ rwAt' = RWMove(rwAt, "r_held", "r_wait")
            /\ UNCHANGED readCount
       ELSE /\ readCount' = readCount
            /\ rwAt' = RWMove(rwAt, "r_held", "reading")
    /\ rwMu' = FALSE
    /\ RWFrame

RLockTest ==
    /\ rwAt["r_held"] > 0
    /\ IF ReaderMustWait(readCount)
       THEN /\ rwAt' = RWMove(rwAt, "r_held", "r_wait")
            /\ UNCHANGED readCount
       ELSE /\ readCount' = readCount + 1
            /\ rwAt' = RWMove(rwAt, "r_held", "reading")
    /\ rwMu' = FALSE
    /\ RWFrame

\* the tail of cond.Wait() in RLock: c.L.Lock() once signalled
RLockRewake ==
    /\ rwAt["r_woken"] > 0 /\ ~rwMu
    /\ rwMu' = TRUE
    /\ rwAt' = RWMove(rwAt, "r_woken", "r_held")
    /\ UNCHANGED readCount
    /\ RWFrame

\* RUnlock(): rw.cond.L.Lock()
RUnlockAcquire ==
    /\ rwAt["reading"] > 0 /\ ~rwMu
    /\ rwMu' = TRUE
    /\ rwAt' = RWMove(rwAt, "reading", "ru_held")
    /\ UNCHANGED readCount
    /\ RWFrame

\* RUnlock(): rw.readCount--; the two signals; rw.cond.L.Unlock()
RUnlockRelease ==
    /\ rwAt["ru_held"] > 0
    /\ readCount' = readCount - 1
    /\ \E a \in RUnlockSignals(rwAt, readCount - 1) :
          rwAt' = RWMove(a, "ru_held", "r_idle")
    /\ rwMu' = FALSE
    /\ RWFrame

RWNext ==
    \/ LockAcquire \/ LockTest \/ LockRewake \/ Unlock
    \/ RLockAcquire \/ RLockTest \/ RLockRewake
    \/ RUnlockAcquire \/ RUnlockRelease

-----------------------------------------------------------------------------
(***************************************************************************)
(* The feed: a singly linked list of posts between two sentinel posts.     *)
(* A post is a record [body, timestamp, next]; posts is the heap, a        *)
(* function from node ids to posts.  Timestamps are integers; the two      *)
(* infinities of float64 are the integers NegInf and PosInf, below and     *)
(* above every timestamp a request can carry, so that < and = on them act  *)
(* as they do on float64.  Go reclaims a post once nothing refers to it:   *)
(* the heap keeps the posts reachable from start and the post an Add has   *)
(* allocated but not yet linked.                                           *)
(***************************************************************************)

MaxTs == 3         \* finite timestamps are 1 .. MaxTs

Timestamps == 1 .. MaxTs
Bodies == {"a", "b"}

NegInf == 0 - 1000000
PosInf == 1000000
Nil == 0           \* the nil pointer
start == 1         \* f.start: the node NewFeed allocates first

NoAdd == [pred |-> Nil, node |-> Nil]

\* newPost
newPost(body, timestamp, next) ==
    [body |-> body, timestamp |-> timestamp, next |-> next]

\* NewFeed: start -> (-Inf) -> (+Inf) -> nil
NewFeed ==
    (start :> newPost("null", NegInf, 2)) @@ (2 :> newPost("", PosInf, Nil))

\* the address the allocator hands out: the lowest id not in use
NewNode(h) ==
    CHOOSE n \in 1 .. (Cardinality(DOMAIN h) + 1) :
        /\ n \notin DOMAIN h
        /\ \A m \in 1 .. (n - 1) : m \in DOMAIN h

\* the loop test curr.timestamp < timestamp of Add, Remove and Contains
WalkOn_never(currTs, ts) == FALSE

WalkOn_le(currTs, ts) == currTs <= ts

WalkOn(currTs, ts) == currTs < ts

\* pred := f.start; curr := pred.next; for curr.timestamp < timestamp {...}
\* The result is <<pred, curr>> when the loop ends.
RECURSIVE Walk(_, _, _, _)
Walk(h, pred, curr, ts) ==
    IF WalkOn(h[curr].timestamp, ts)
    THEN Walk(h, curr, h[curr].next, ts)
    ELSE <<pred, curr>>

Locate(h, ts) == Walk(h, start, h[start].next, ts)

\* the node ids met from p by following next, p first
RECURSIVE ListFrom(_, _)
ListFrom(h, p) ==
    IF p = Nil THEN <<>> ELSE <<p>> \o ListFrom(h, h[p].next)

\* the garbage collector: what is left of the heap when only the nodes
\* reachable from start and the nodes of keep are kept
Reclaim(h, keep) ==
    LET l == ListFrom(h, start)
        reach == {l[i] : i \in 1 .. Len(l)} \cup keep
    IN  [n \in reach |-> h[n]]

\* Add, lines 62-70: the walk and newPost(body, timestamp, curr)
AddAlloc(h, body, ts) ==
    LET pc == Locate(h, ts)
        n  == NewNode(h)
    IN  [heap |-> h @@ (n :> newPost(body, ts, pc[2])),
         pred |-> pc[1], node |-> n]

\* Add, line 71: pred.next = newPost
AddLink(h, pred, node) == [h EXCEPT ![pred].next = node]

\* the whole of Add on the heap
AddPost(h, body, ts) ==
    LET a == AddAlloc(h, body, ts) IN AddLink(a.heap, a.pred, a.node)

\* the test curr.timestamp == timestamp of Remove
RemoveHit_any(currTs, ts) == currTs < PosInf

RemoveHit(currTs, ts) == currTs = ts

\* Remove on the heap: the heap it leaves and the value it returns
RemovePost(h, ts) ==
    LET pc == Locate(h, ts)
        pred == pc[1]
        curr == pc[2]
    IN  IF RemoveHit(h[curr].timestamp, ts)
        THEN [heap |-> Reclaim([h EXCEPT ![pred].next = h[curr].next], {}),
              ret |-> TRUE]
        ELSE [heap |-> h, ret |-> FALSE]

\* Contains: return curr.timestamp == timestamp
ContainsPost(h, ts) ==
    LET curr == Locate(h, ts)[2] IN h[curr].timestamp = ts

\* json.Marshal(postBodyTimestamp{Body, Timestamp}): an object with the keys
\* Body and Timestamp; json cannot encode an infinity, Marshal then gives no
\* bytes and ShowFeed drops the error
Marshal(p) ==
    IF p.timestamp \in {NegInf, PosInf}
    THEN [bytes |-> FALSE, Body |-> "", Timestamp |-> 0]
    ELSE [bytes |-> TRUE, Body |-> p.body, Timestamp |-> p.timestamp]

\* reverseFeed
reverseFeed_same(input) == input

RECURSIVE reverseFeed(_)
reverseFeed(input) ==
    IF Len(input) = 0 THEN input
    ELSE Append(reverseFeed(Tail(input)), Head(input))

\* the loop of ShowFeed: for post.timestamp != +Inf { append; post = post.next }
RECURSIVE ShowLoop(_, _, _)
ShowLoop(h, post, feedArray) ==
    IF h[post].timestamp # PosInf
    THEN ShowLoop(h, h[post].next, Append(feedArray, Marshal(h[post])))
    ELSE feedArray

\* ShowFeed
ShowFeed(h) == reverseFeed(ShowLoop(h, h[start].next, <<>>))

NoCall == [op |-> "none", ts |-> 0, ok |-> FALSE, feed |-> <<>>]

\* what a call on the feed alone leaves alone
FeedFrame == UNCHANGED <<fcVars, queueVars, qopVars, coordVars>>

FeedInit ==
    /\ posts = NewFeed
    /\ adding = NoAdd
    /\ last = NoCall
    /\ live = [t \in Timestamps |-> FALSE]

\* Add up to its allocation.  Lock() has returned: cond.L stays held until
\* Unlock.  The caller keeps the feed's contract of no duplicate posts.
FeedAddBegin ==
    /\ adding = NoAdd /\ ~rwMu /\ ~WriterMustWait(readCount)
    /\ \E b \in Bodies, t \in Timestamps :
          /\ ~ContainsPost(posts, t)
          /\ LET a == AddAlloc(posts, b, t)
             IN  /\ posts' = a.heap
                 /\ adding' = [pred |-> a.pred, node |-> a.node]
    /\ rwMu' = TRUE
    /\ UNCHANGED <<last, live, readCount, rwAt>>
    /\ FeedFrame

\* Add from its link to its return
FeedAddEnd ==
    /\ adding # NoAdd
    /\ posts' = AddLink(posts, adding.pred, adding.node)
    /\ adding' = NoAdd
    /\ last' = [NoCall EXCEPT !.op = "Add", !.ts = posts[adding.node].timestamp,
                              !.ok = TRUE]
    /\ live' = [live EXCEPT ![posts[adding.node].timestamp] = TRUE]
    /\ rwMu' = FALSE
    /\ UNCHANGED <<readCount, rwAt>>
    /\ FeedFrame

\* Remove
FeedRemove(t) ==
    /\ adding = NoAdd /\ ~rwMu /\ ~WriterMustWait(readCount)
    /\ LET r == RemovePost(posts, t)
       IN  /\ posts' = r.heap
           /\ last' = [NoCall EXCEPT !.op = "Remove", !.ts = t, !.ok = r.ret]
           /\ live' = IF r.ret THEN [live EXCEPT ![t] = FALSE] ELSE live
    /\ UNCHANGED <<adding, rwVars>>
    /\ FeedFrame

\* Contains
FeedContains(t) ==
    /\ adding = NoAdd /\ ~rwMu /\ ~ReaderMustWait(readCount)
    /\ last' = [NoCall EXCEPT !.op = "Contains", !.ts = t,
                              !.ok = ContainsPost(posts, t)]
    /\ UNCHANGED <<posts, adding, live, rwVars>>
    /\ FeedFrame

\* ShowFeed
FeedShow ==
    /\ adding = NoAdd /\ ~rwMu /\ ~ReaderMustWait(readCount)
    /\ last' = [NoCall EXCEPT !.op = "ShowFeed", !.feed = ShowFeed(posts)]
    /\ UNCHANGED <<posts, adding, live, rwVars>>
    /\ FeedFrame

FeedNext ==
    \/ FeedAddBegin
    \/ FeedAddEnd
    \/ \E t \in Timestamps : FeedRemove(t)
    \/ \E t \in Timestamps : FeedContains(t)
    \/ FeedShow

-----------------------------------------------------------------------------
(***************************************************************************)
(* The feed called with any float64 timestamp and without the contract of  *)
(* no duplicate posts.  A walk that reaches the nil after the last post    *)
(* dereferences it: the goroutine panics and the program ends.             *)
(***************************************************************************)

MaxPosts == 3      \* Add is called while fewer posts than this follow start

AnyTimestamps == Timestamps \cup {NegInf, PosInf}

Panic == [NoCall EXCEPT !.op = "panic"]

\* the loop of Add, Remove and Contains reads curr.timestamp with curr = nil:
\* no post after start ends the walk
WalkPanics(h, ts) ==
    LET l == ListFrom(h, start)
    IN  \A i \in 2 .. Len(l) : WalkOn(h[l[i]].timestamp, ts)

\* the loop of ShowFeed reads post.timestamp with post = nil
ShowPanics(h) ==
    LET l == ListFrom(h, start)
    IN  \A i \in 2 .. Len(l) : h[l[i]].timestamp # PosInf

\* Add, from Lock to Unlock
FeedAddAny(b, t) ==
    /\ last.op # "panic" /\ adding = NoAdd /\ ~rwMu /\ ~WriterMustWait(readCount)
    /\ Len(ListFrom(posts, start)) <= MaxPosts
    /\ IF WalkPanics(posts, t)
       THEN posts' = posts /\ last' = Panic
       ELSE /\ posts' = AddPost(posts, b, t)
            /\ last' = [NoCall EXCEPT !.op = "Add", !.ts = t, !.ok = TRUE]
    /\ UNCHANGED <<adding, live, rwVars>>
    /\ FeedFrame

\* Remove
FeedRemoveAny(t) ==
    /\ last.op # "panic" /\ adding = NoAdd /\ ~rwMu /\ ~WriterMustWait(readCount)
    /\ IF WalkPanics(posts, t)
       THEN posts' = posts /\ last' = Panic
       ELSE LET r == RemovePost(posts, t)
            IN  /\ posts' = r.heap
                /\ last' = [NoCall EXCEPT !.op = "Remove", !.ts = t, !.ok = r.ret]
    /\ UNCHANGED <<adding, live, rwVars>>
    /\ FeedFrame

\* Contains
FeedContainsAny(t) ==
    /\ last.op # "panic" /\ adding = NoAdd /\ ~rwMu /\ ~ReaderMustWait(readCount)
    /\ last' = IF WalkPanics(posts, t) THEN Panic
               ELSE [NoCall EXCEPT !.op = "Contains", !.ts = t,
                                   !.ok = ContainsPost(posts, t)]
    /\ UNCHANGED <<posts, adding, live, rwVars>>
    /\ FeedFrame

\* ShowFeed
FeedShowAny ==
    /\ last.op # "panic" /\ adding = NoAdd /\ ~rwMu /\ ~ReaderMustWait(readCount)
    /\ last' = IF ShowPanics(posts) THEN Panic
               ELSE [NoCall EXCEPT !.op = "ShowFeed", !.feed = ShowFeed(posts)]
    /\ UNCHANGED <<posts, adding, live, rwVars>>
    /\ FeedFrame

FeedAnyNext ==
    \/ \E b \in Bodies, t \in AnyTimestamps : FeedAddAny(b, t)
    \/ \E t \in AnyTimestamps : FeedRemoveAny(t)
    \/ \E t \in AnyTimestamps : FeedContainsAny(t)
    \/ FeedShowAny

-----------------------------------------------------------------------------
(***************************************************************************)
(* The feed under concurrent callers.  Each thread calls one method at a   *)
(* time; every access to the lock or to a post is a step.  Lock and RLock  *)
(* are taken from their return: Lock returns holding rw.cond.L once        *)
(* readCount is 0, RLock returns once it has counted the reader in.  A     *)
(* post stays in the heap while some thread still points to it.            *)
(*                                                                         *)
(* A reader keeps in expect what its method gives when run at once on the  *)
(* feed as it is when RLock returns.                                       *)
(***************************************************************************)

NFeedThreads == 2  \* threads that call the feed's methods in SpecFeedThreads
MaxTsThreads == 2  \* the timestamps these threads use are 1 .. MaxTsThreads

FeedThreads == 1 .. NFeedThreads
ThreadTimestamps == 1 .. MaxTsThreads

NoFeedLocals ==
    [op |-> "none", ts |-> 0, body |-> "", pred |-> Nil, curr |-> Nil,
     feedArray |-> <<>>, ret |-> FALSE, expect |-> NoCall]

FcInit ==
    /\ fpc = [w \in FeedThreads |-> "idle"]
    /\ floc = [w \in FeedThreads |-> NoFeedLocals]

\* the posts some thread other than w points to
HeldBut(w) ==
    UNION {{floc[v].pred, floc[v].curr} : v \in FeedThreads \ {w}} \ {Nil}

FcGoto(w, pos) == fpc' = [fpc EXCEPT ![w] = pos]
FcSet(w, loc) == floc' = [floc EXCEPT ![w] = loc]

\* what a step of a feed method leaves alone
FcFrame == UNCHANGED <<rwAt, adding, live, queueVars, qopVars, coordVars>>

\* a method of the feed is called; an Add brings a timestamp that is neither
\* in the feed nor being added
FcCall(w) ==
    /\ fpc[w] = "idle"
    /\ \/ \E b \in Bodies, t \in ThreadTimestamps :
             /\ ~ContainsPost(posts, t)
             /\ \A v \in FeedThreads : ~(floc[v].op = "Add" /\ floc[v].ts = t)
             /\ FcSet(w, [NoFeedLocals EXCEPT !.op = "Add", !.ts = t, !.body = b])
             /\ FcGoto(w, "lock")
       \/ \E t \in ThreadTimestamps :
             /\ FcSet(w, [NoFeedLocals EXCEPT !.op = "Remove", !.ts = t])
             /\ FcGoto(w, "lock")
       \/ \E t \in ThreadTimestamps :
             /\ FcSet(w, [NoFeedLocals EXCEPT !.op = "Contains", !.ts = t])
             /\ FcGoto(w, "rlock")
       \/ /\ FcSet(w, [NoFeedLocals EXCEPT !.op = "ShowFeed"])
          /\ FcGoto(w, "rlock")
    /\ UNCHANGED <<posts, last, readCount, rwMu>>
    /\ FcFrame

\* lines 60, 81: f.lock.Lock() returns
FcLock(w) ==
    /\ fpc[w] = "lock" /\ ~rwMu /\ ~WriterMustWait(readCount)
    /\ rwMu' = TRUE
    /\ FcGoto(w, "first")
    /\ UNCHANGED <<posts, last, readCount, floc>>
    /\ FcFrame

\* lines 105, 132: f.lock.RLock() returns
FcRLock(w) ==
    /\ fpc[w] = "rlock" /\ ~rwMu /\ ~ReaderMustWait(readCount)
    /\ readCount' = readCount + 1
    /\ FcSet(w, [floc[w] EXCEPT !.expect =
                   IF floc[w].op = "Contains"
                   THEN [NoCall EXCEPT !.ok = ContainsPost(posts, floc[w].ts)]
                   ELSE [NoCall EXCEPT !.feed = ShowFeed(posts)]])
    /\ FcGoto(w, "first")
    /\ UNCHANGED <<posts, last, rwMu>>
    /\ FcFrame

\* lines 62-63, 83-84, 107-108: pred := f.start; curr := pred.next
\* line 133: post := f.start.next
FcFirst(w) ==
    /\ fpc[w] = "first"
    /\ FcSet(w, [floc[w] EXCEPT
                   !.pred = IF floc[w].op = "ShowFeed" THEN Nil ELSE start,
                   !.curr = posts[start].next])
    /\ FcGoto(w, IF floc[w].op = "ShowFeed" THEN "show" ELSE "walk")
    /\ UNCHANGED <<posts, last, readCount, rwMu>>
    /\ FcFrame

\* lines 65-68, 86-89, 110-113: one test of the loop and one round of it
FcWalk(w) ==
    /\ fpc[w] = "walk"
    /\ IF WalkOn(posts[floc[w].curr].timestamp, floc[w].ts)
       THEN /\ FcSet(w, [floc[w] EXCEPT !.pred = floc[w].curr,
                                        !.curr = posts[floc[w].curr].next])
            /\ FcGoto(w, "walk")
       ELSE /\ UNCHANGED floc
            /\ FcGoto(w, IF floc[w].op = "Add" THEN "link"
                         ELSE IF floc[w].op = "Remove" THEN "test" ELSE "runlock")
    /\ UNCHANGED <<posts, last, readCount, rwMu>>
    /\ FcFrame

\* lines 70-71: newPost := newPost(body, timestamp, curr); pred.next = newPost
FcLink(w) ==
    /\ fpc[w] = "link"
    /\ LET n == NewNode(posts)
       IN  posts' = AddLink(posts @@ (n :> newPost(floc[w].body, floc[w].ts, floc[w].curr)),
                            floc[w].pred, n)
    /\ FcGoto(w, "unlock")
    /\ UNCHANGED <<last, readCount, rwMu, floc>>
    /\ FcFrame

\* lines 91-92: if curr.timestamp == timestamp { pred.next = curr.next }
FcTest_held(w) ==
    /\ fpc[w] = "test"
    /\ IF RemoveHit(posts[floc[w].curr].timestamp, floc[w].ts)
       THEN /\ posts' = [posts EXCEPT ![floc[w].pred].next = posts[floc[w].curr].next]
            /\ FcSet(w, [floc[w] EXCEPT !.ret = TRUE])
            /\ FcGoto(w, "ret")
       ELSE /\ posts' = posts
            /\ FcSet(w, [floc[w] EXCEPT !.ret = FALSE])
            /\ FcGoto(w, "unlock")
    /\ UNCHANGED <<last, readCount, rwMu>>
    /\ FcFrame

FcTest(w) ==
    /\ fpc[w] = "test"
    /\ IF RemoveHit(posts[floc[w].curr].timestamp, floc[w].ts)
       THEN /\ posts' = [posts EXCEPT ![floc[w].pred].next = posts[floc[w].curr].next]
            /\ FcSet(w, [floc[w] EXCEPT !.ret = TRUE])
       ELSE /\ posts' = posts
            /\ FcSet(w, [floc[w] EXCEPT !.ret = FALSE])
    /\ FcGoto(w, "unlock")
    /\ UNCHANGED <<last, readCount, rwMu>>
    /\ FcFrame

\* lines 73, 93, 96: f.lock.Unlock()
FcUnlock(w) ==
    /\ fpc[w] = "unlock"
    /\ rwMu' = FALSE
    /\ FcGoto(w, "ret")
    /\ UNCHANGED <<posts, last, readCount, floc>>
    /\ FcFrame

\* lines 134-138: one test of the loop of ShowFeed and one round of it
FcShow(w) ==
    /\ fpc[w] = "show"
    /\ IF posts[floc[w].curr].timestamp # PosInf
       THEN /\ FcSet(w, [floc[w] EXCEPT
                           !.feedArray = Append(@, Marshal(posts[floc[w].curr])),
                           !.curr = posts[floc[w].curr].next])
            /\ FcGoto(w, "show")
       ELSE /\ UNCHANGED floc
            /\ FcGoto(w, "runlock")
    /\ UNCHANGED <<posts, last, readCount, rwMu>>
    /\ FcFrame

\* lines 115, 139: f.lock.RUnlock()
FcRUnlock(w) ==
    /\ fpc[w] = "runlock" /\ ~rwMu
    /\ readCount' = readCount - 1
    /\ FcGoto(w, "ret")
    /\ UNCHANGED <<posts, last, rwMu, floc>>
    /\ FcFrame

\* the value a method returns: lines 74, 94, 97, 117 (curr.timestamp is read
\* here, after RUnlock) and 141
FcReturnValue(w) ==
    IF floc[w].op = "Contains"
    THEN [NoCall EXCEPT !.op = "Contains", !.ts = floc[w].ts,
                        !.ok = (posts[floc[w].curr].timestamp = floc[w].ts)]
    ELSE IF floc[w].op = "ShowFeed"
    THEN [NoCall EXCEPT !.op = "ShowFeed", !.feed = reverseFeed(floc[w].feedArray)]
    ELSE [NoCall EXCEPT !.op = floc[w].op, !.ts = floc[w].ts,
                        !.ok = (floc[w].op = "Add" \/ floc[w].ret)]

\* the method returns; the posts no list and no thread points to are reclaimed
FcReturn(w) ==
    /\ fpc[w] = "ret"
    /\ posts' = Reclaim(posts, HeldBut(w))
    /\ FcSet(w, NoFeedLocals)
    /\ FcGoto(w, "idle")
    /\ UNCHANGED <<last, readCount, rwMu>>
    /\ FcFrame

FeedThreadsNext ==
    \E w \in FeedThreads :
        \/ FcCall(w) \/ FcLock(w) \/ FcRLock(w) \/ FcFirst(w) \/ FcWalk(w)
        \/ FcLink(w) \/ FcTest(w) \/ FcUnlock(w) \/ FcShow(w) \/ FcRUnlock(w)
        \/ FcReturn(w)

-----------------------------------------------------------------------------
(***************************************************************************)
(* Requests.  A line of standard input is a record                         *)
(*   [json, command, id, body, timestamp, value]                           *)
(* json says whether the line is a JSON object; the other fields are the   *)
(* values of its keys, absent keys holding Go's zero values.  The queue    *)
(* carries the lines as they are (the byteTask of a task).                 *)
(***************************************************************************)

RawLine(command, id, body, timestamp) ==
    [json |-> TRUE, command |-> command, id |-> id, body |-> body,
     timestamp |-> timestamp, value |-> ""]

\* json.Marshal(Data{Value: "sentinel"}), what Dequeue returns on an empty queue
SentinelBytes_nil == [json |-> FALSE, command |-> "", id |-> 0, body |-> "",
                      timestamp |-> 0, value |-> ""]

SentinelBytes ==
    [json |-> TRUE, command |-> "", id |-> 0, body |-> "", timestamp |-> 0,
     value |-> "sentinel"]

\* the byteTask of new(task): nil
NoBytes ==
    [json |-> FALSE, command |-> "", id |-> 0, body |-> "", timestamp |-> 0,
     value |-> ""]

\* json.Unmarshal(bytes, &cm): err and the ClientMessage it fills
Unmarshal(bytes) ==
    IF bytes.json
    THEN [err |-> FALSE,
          cm |-> [Command |-> bytes.command, Id |-> bytes.id, Body |-> bytes.body,
                  Timestamp |-> bytes.timestamp, Value |-> bytes.value]]
    ELSE [err |-> TRUE,
          cm |-> [Command |-> "", Id |-> 0, Body |-> "", Timestamp |-> 0,
                  Value |-> ""]]

-----------------------------------------------------------------------------
(***************************************************************************)
(* The lock-free queue.  qn is the heap of task structs, qhead and qtail   *)
(* the two pointers of the queue struct.  Node ids are never reused: Go's  *)
(* collector frees a task only when no goroutine refers to it.             *)
(*                                                                         *)
(* In SpecQueue every read and every compare-and-swap of shared memory is  *)
(* a step.  A thread's position qpc is the line it is about to execute.    *)
(***************************************************************************)

NDeq == 2          \* dequeuing threads in SpecQueue
MaxEnq == 3        \* Enqueue calls in SpecQueue
MaxDeqCalls == 2   \* Dequeue calls of each dequeuer in SpecQueue

Enqueuer == 0
Dequeuers == 1 .. NDeq
QThreads == {Enqueuer} \cup Dequeuers
QPayloads == {RawLine("FEED", 1, "", 0), RawLine("FEED", 2, "", 0)}

\* newTask
newTask(byteTask, next) == [byteTask |-> byteTask, next |-> next]

\* NewQueue: q.head = new(task); q.tail = q.head
NewQueueHeap == (1 :> newTask(NoBytes, Nil))

\* whether atomic.CompareAndSwapPointer(addr, old, new) finds old at addr
CasHits_always(found, old) == TRUE
CasHits_never(found, old) == FALSE

CasHits(found, old) == found = old

NoLocals ==
    [newTask |-> Nil, expectTail |-> Nil, expectTailNext |-> Nil, linkAt |-> Nil,
     expectSentinel |-> Nil, expectRemoved |-> Nil, result |-> NoBytes]

\* what a step of Enqueue or Dequeue leaves alone
QueueFrame == UNCHANGED <<rwVars, feedVars, fcVars, coordVars>>

QueueInit ==
    /\ qn = NewQueueHeap
    /\ qhead = 1
    /\ qtail = 1

QopInit ==
    /\ qpc = [t \in QThreads |-> "idle"]
    /\ qloc = [t \in QThreads |-> NoLocals]
    /\ enqSeq = <<>>
    /\ got = [t \in Dequeuers |-> <<>>]
    /\ deqCalls = [t \in Dequeuers |-> 0]

QGoto(t, pos) == qpc' = [qpc EXCEPT ![t] = pos]
QSet(t, loc) == qloc' = [qloc EXCEPT ![t] = loc]

\* Enqueue, line 208: newTask := newTask(byteTask, nil)
EnqCall(t) ==
    /\ t = Enqueuer /\ qpc[t] = "idle" /\ Len(enqSeq) < MaxEnq
    /\ \E p \in QPayloads :
          LET n == NewNode(qn)
          IN  /\ qn' = qn @@ (n :> newTask(p, Nil))
              /\ QSet(t, [NoLocals EXCEPT !.newTask = n])
              /\ enqSeq' = Append(enqSeq, p)
    /\ QGoto(t, "e213")
    /\ UNCHANGED <<qhead, qtail, got, deqCalls>>
    /\ QueueFrame

\* line 213: expectTail = q.tail
Enq213(t) ==
    /\ qpc[t] = "e213"
    /\ QSet(t, [qloc[t] EXCEPT !.expectTail = qtail])
    /\ QGoto(t, "e214")
    /\ UNCHANGED <<queueVars, enqSeq, got, deqCalls>>
    /\ QueueFrame

\* line 214: expectTailNext = expectTail.next
Enq214(t) ==
    /\ qpc[t] = "e214"
    /\ QSet(t, [qloc[t] EXCEPT !.expectTailNext = qn[qloc[t].expectTail].next])
    /\ QGoto(t, "e217")
    /\ UNCHANGED <<queueVars, enqSeq, got, deqCalls>>
    /\ QueueFrame

\* lines 217-225: if q.tail != expectTail { continue }; then the test of
\* expectTailNext, which is local
Enq217(t) ==
    /\ qpc[t] = "e217"
    /\ QGoto(t, IF qtail # qloc[t].expectTail THEN "e213"
                ELSE IF qloc[t].expectTailNext # Nil THEN "e223" ELSE "e228")
    /\ UNCHANGED <<queueVars, qloc, enqSeq, got, deqCalls>>
    /\ QueueFrame

\* line 223: CAS(&q.tail, expectTail, expectTailNext); continue
Enq223(t) ==
    /\ qpc[t] = "e223"
    /\ qtail' = IF CasHits(qtail, qloc[t].expectTail)
                THEN qloc[t].expectTailNext ELSE qtail
    /\ QGoto(t, "e213")
    /\ UNCHANGED <<qhead, qn, qloc, enqSeq, got, deqCalls>>
    /\ QueueFrame

\* line 228, the operand &q.tail.next: q.tail is read again
Enq228(t) ==
    /\ qpc[t] = "e228"
    /\ QSet(t, [qloc[t] EXCEPT !.linkAt = qtail])
    /\ QGoto(t, "e228cas")
    /\ UNCHANGED <<queueVars, enqSeq, got, deqCalls>>
    /\ QueueFrame

\* line 228: success = CAS(&q.tail.next, expectTailNext, newTask)
Enq228Cas(t) ==
    /\ qpc[t] = "e228cas"
    /\ LET at == qloc[t].linkAt
       IN  IF CasHits(qn[at].next, qloc[t].expectTailNext)
           THEN /\ qn' = [qn EXCEPT ![at].next = qloc[t].newTask]
                /\ QGoto(t, "e232")
           ELSE /\ qn' = qn
                /\ QGoto(t, "e213")
    /\ UNCHANGED <<qhead, qtail, qloc, enqSeq, got, deqCalls>>
    /\ QueueFrame

\* line 232: CAS(&q.tail, expectTail, newTask); return
Enq232(t) ==
    /\ qpc[t] = "e232"
    /\ qtail' = IF CasHits(qtail, qloc[t].expectTail)
                THEN qloc[t].newTask ELSE qtail
    /\ QSet(t, NoLocals)
    /\ QGoto(t, "idle")
    /\ UNCHANGED <<qhead, qn, enqSeq, got, deqCalls>>
    /\ QueueFrame

\* Dequeue is called
DeqCall(t) ==
    /\ t \in Dequeuers /\ qpc[t] = "idle" /\ deqCalls[t] < MaxDeqCalls
    /\ deqCalls' = [deqCalls EXCEPT ![t] = @ + 1]
    /\ QGoto(t, "d250")
    /\ UNCHANGED <<queueVars, qloc, enqSeq, got>>
    /\ QueueFrame

\* line 250: expectSentinel = q.head
Deq250(t) ==
    /\ qpc[t] = "d250"
    /\ QSet(t, [NoLocals EXCEPT !.expectSentinel = qhead])
    /\ QGoto(t, "d251")
    /\ UNCHANGED <<queueVars, enqSeq, got, deqCalls>>
    /\ QueueFrame

\* line 251: expectRemoved = expectSentinel.next
Deq251(t) ==
    /\ qpc[t] = "d251"
    /\ QSet(t, [qloc[t] EXCEPT !.expectRemoved = qn[qloc[t].expectSentinel].next])
    /\ QGoto(t, "d252")
    /\ UNCHANGED <<queueVars, enqSeq, got, deqCalls>>
    /\ QueueFrame

\* line 252: expectTail = q.tail
Deq252(t) ==
    /\ qpc[t] = "d252"
    /\ QSet(t, [qloc[t] EXCEPT !.expectTail = qtail])
    /\ QGoto(t, "d255")
    /\ UNCHANGED <<queueVars, enqSeq, got, deqCalls>>
    /\ QueueFrame

\* lines 255-269: if q.head != expectSentinel { continue }; then the tests of
\* expectRemoved and expectTail, which are local; on an empty queue the
\* sentinel bytes are returned
Deq255_nohelp(t) ==
    /\ qpc[t] = "d255"
    /\ IF qhead # qloc[t].expectSentinel
       THEN QGoto(t, "d250") /\ UNCHANGED qloc
       ELSE IF qloc[t].expectRemoved = Nil
       THEN QGoto(t, "ret") /\ QSet(t, [NoLocals EXCEPT !.result = SentinelBytes])
       ELSE QGoto(t, "d273") /\ UNCHANGED qloc
    /\ UNCHANGED <<queueVars, enqSeq, got, deqCalls>>
    /\ QueueFrame

Deq255(t) ==
    /\ qpc[t] = "d255"
    /\ IF qhead # qloc[t].expectSentinel
       THEN QGoto(t, "d250") /\ UNCHANGED qloc
       ELSE IF qloc[t].expectRemoved = Nil
       THEN QGoto(t, "ret") /\ QSet(t, [NoLocals EXCEPT !.result = SentinelBytes])
       ELSE IF qloc[t].expectTail = qloc[t].expectSentinel
       THEN QGoto(t, "d267") /\ UNCHANGED qloc
       ELSE QGoto(t, "d273") /\ UNCHANGED qloc
    /\ UNCHANGED <<queueVars, enqSeq, got, deqCalls>>
    /\ QueueFrame

\* line 267: CAS(&q.tail, expectTail, expectRemoved); continue
Deq267(t) ==
    /\ qpc[t] = "d267"
    /\ qtail' = IF CasHits(qtail, qloc[t].expectTail)
                THEN qloc[t].expectRemoved ELSE qtail
    /\ QGoto(t, "d250")
    /\ UNCHANGED <<qhead, qn, qloc, enqSeq, got, deqCalls>>
    /\ QueueFrame

\* lines 272-273: dequeued = expectRemoved.byteTask;
\* success = CAS(&q.head, expectSentinel, expectRemoved)
Deq273(t) ==
    /\ qpc[t] = "d273"
    /\ IF CasHits(qhead, qloc[t].expectSentinel)
       THEN /\ qhead' = qloc[t].expectRemoved
            /\ QSet(t, [NoLocals EXCEPT !.result = qn[qloc[t].expectRemoved].byteTask])
            /\ QGoto(t, "ret")
       ELSE /\ qhead' = qhead
            /\ UNCHANGED qloc
            /\ QGoto(t, "d250")
    /\ UNCHANGED <<qtail, qn, enqSeq, got, deqCalls>>
    /\ QueueFrame

\* Dequeue returns to its caller, which keeps what is not the sentinel
DeqReturn(t) ==
    /\ qpc[t] = "ret"
    /\ got' = [got EXCEPT ![t] =
                 IF qloc[t].result = SentinelBytes THEN @ ELSE Append(@, qloc[t].result)]
    /\ QSet(t, NoLocals)
    /\ QGoto(t, "idle")
    /\ UNCHANGED <<queueVars, enqSeq, deqCalls>>
    /\ QueueFrame

QueueNext ==
    \E t \in QThreads :
        \/ EnqCall(t) \/ Enq213(t) \/ Enq214(t) \/ Enq217(t)
        \/ Enq228(t) \/ Enq228Cas(t) \/ Enq232(t)
        \/ DeqCall(t) \/ Deq250(t) \/ Deq251(t) \/ Deq252(t) \/ Deq255(t)
        \/ Deq267(t) \/ Deq273(t) \/ DeqReturn(t)

NEnq == 2          \* enqueuing threads in SpecQueueMany

\* the threads that call Enqueue in SpecQueueMany; all but the first also
\* call Dequeue
Enqueuers == Enqueuer .. (NEnq - 1)

\* Enqueue is called, line 208; each thread enqueues a payload of its own
EnqCallAny(t) ==
    /\ t \in Enqueuers /\ qpc[t] = "idle" /\ Len(enqSeq) < MaxEnq
    /\ LET n == NewNode(qn)
           p == RawLine("FEED", t + 1, "", 0)
       IN  /\ qn' = qn @@ (n :> newTask(p, Nil))
           /\ QSet(t, [NoLocals EXCEPT !.newTask = n])
           /\ enqSeq' = Append(enqSeq, p)
    /\ QGoto(t, "e213")
    /\ UNCHANGED <<qhead, qtail, got, deqCalls>>
    /\ QueueFrame

\* several goroutines enqueue, several dequeue
QueueNextMany ==
    \E t \in QThreads :
        \/ EnqCallAny(t) \/ Enq213(t) \/ Enq214(t) \/ Enq217(t) \/ Enq223(t)
        \/ Enq228(t) \/ Enq228Cas(t) \/ Enq232(t)
        \/ DeqCall(t) \/ Deq250(t) \/ Deq251(t) \/ Deq252(t) \/ Deq255(t)
        \/ Deq267(t) \/ Deq273(t) \/ DeqReturn(t)

\* One thread running Enqueue or Dequeue alone: the queue and the thread's own
\* position and locals, s = [head, tail, n, pc, loc], after the thread's next
\* step (lines 213-232 and 250-277, one step per access as above)
SoloStep(s) ==
    LET l == s.loc
    IN  CASE s.pc = "e213" ->
               [s EXCEPT !.loc.expectTail = s.tail, !.pc = "e214"]
          [] s.pc = "e214" ->
               [s EXCEPT !.loc.expectTailNext = s.n[l.expectTail].next, !.pc = "e217"]
          [] s.pc = "e217" ->
               [s EXCEPT !.pc = IF s.tail # l.expectTail THEN "e213"
                                ELSE IF l.expectTailNext # Nil THEN "e223" ELSE "e228"]
          [] s.pc = "e223" ->
               [s EXCEPT !.tail = IF CasHits(s.tail, l.expectTail)
                                  THEN l.expectTailNext ELSE s.tail,
                         !.pc = "e213"]
          [] s.pc = "e228" ->
               [s EXCEPT !.loc.linkAt = s.tail, !.pc = "e228cas"]
          [] s.pc = "e228cas" ->
               IF CasHits(s.n[l.linkAt].next, l.expectTailNext)
               THEN [s EXCEPT !.n[l.linkAt].next = l.newTask, !.pc = "e232"]
               ELSE [s EXCEPT !.pc = "e213"]
          [] s.pc = "e232" ->
               [s EXCEPT !.tail = IF CasHits(s.tail, l.expectTail)
                                  THEN l.newTask ELSE s.tail,
                         !.loc = NoLocals, !.pc = "idle"]
          [] s.pc = "d250" ->
               [s EXCEPT !.loc = [NoLocals EXCEPT !.expectSentinel = s.head],
                         !.pc = "d251"]
          [] s.pc = "d251" ->
               [s EXCEPT !.loc.expectRemoved = s.n[l.expectSentinel].next, !.pc = "d252"]
          [] s.pc = "d252" ->
               [s EXCEPT !.loc.expectTail = s.tail, !.pc = "d255"]
          [] s.pc = "d255" ->
               IF s.head # l.expectSentinel THEN [s EXCEPT !.pc = "d250"]
               ELSE IF l.expectRemoved = Nil
               THEN [s EXCEPT !.loc = [NoLocals EXCEPT !.result = SentinelBytes],
                              !.pc = "ret"]
               ELSE IF l.expectTail = l.expectSentinel THEN [s EXCEPT !.pc = "d267"]
               ELSE [s EXCEPT !.pc = "d273"]
          [] s.pc = "d267" ->
               [s EXCEPT !.tail = IF CasHits(s.tail, l.expectTail)
                                  THEN l.expectRemoved ELSE s.tail,
                         !.pc = "d250"]
          [] s.pc = "d273" ->
               IF CasHits(s.head, l.expectSentinel)
               THEN [s EXCEPT !.head = l.expectRemoved,
                              !.loc = [NoLocals EXCEPT
                                          !.result = s.n[l.expectRemoved].byteTask],
                              !.pc = "ret"]
               ELSE [s EXCEPT !.pc = "d250"]
          [] s.pc = "ret" ->
               [s EXCEPT !.loc = NoLocals, !.pc = "idle"]
          [] OTHER -> s

\* the number of steps the thread takes until its call returns when no other
\* thread moves, counted up to k; k + 1 when the call has not returned by then
RECURSIVE SoloLeft(_, _)
SoloLeft(s, k) ==
    IF s.pc = "idle" THEN 0
    ELSE IF k = 0 THEN 1
    ELSE 1 + SoloLeft(SoloStep(s), k - 1)

-----------------------------------------------------------------------------
(***************************************************************************)
(* The coordinator: main's producer and the consumer goroutines.           *)
(*                                                                         *)
(* A step is one access to shared state (ctx.mutex, ctx.cond, numOfTasks,  *)
(* doneBool, the queue, the feed and standard output).  Enqueue, Dequeue   *)
(* and the four feed methods are taken here as single steps: what one call *)
(* does when it runs from entry to return; their own interleavings are the *)
(* subject of SpecQueue and SpecRW.  A position is named after the source  *)
(* line the goroutine is about to execute.                                 *)
(***************************************************************************)

MaxWorkers == 2    \* <number of goroutines> is drawn from 1 .. MaxWorkers
MaxBlock == 2      \* <block size> is drawn from 1 .. MaxBlock
MaxLines == 2      \* requests read before DONE

NoOne == 0         \* ctx.mutex is free
Producer == 100    \* the id under which main holds ctx.mutex
WorkerIds == 1 .. MaxWorkers
Workers == 1 .. nWorkers

DoneLine == RawLine("DONE", 0, "", 0)
NoLine == NoBytes

\* the well-formed requests that can come as line number id
Requests(id) ==
    {RawLine("ADD", id, "b", 1), RawLine("REMOVE", id, "", 1),
     RawLine("CONTAINS", id, "", 1), RawLine("FEED", id, "", 0)}

\* Enqueue run from entry to return on the queue q = [head, tail, n]
RECURSIVE EnqueueLoop(_, _)
EnqueueLoop(q, new) ==
    LET expectTail == q.tail
        expectTailNext == q.n[expectTail].next
    IN  IF expectTailNext # Nil
        THEN EnqueueLoop([q EXCEPT !.tail = expectTailNext], new)
        ELSE [q EXCEPT !.n[expectTail].next = new, !.tail = new]

EnqueueRun(q, byteTask) ==
    LET new == NewNode(q.n)
    IN  EnqueueLoop([q EXCEPT !.n = q.n @@ (new :> newTask(byteTask, Nil))], new)

\* Dequeue run from entry to return: the queue it leaves and the bytes it returns
RECURSIVE DequeueRun(_)
DequeueRun(q) ==
    LET expectSentinel == q.head
        expectRemoved == q.n[expectSentinel].next
        expectTail == q.tail
    IN  IF expectRemoved = Nil THEN [q |-> q, ret |-> SentinelBytes]
        ELSE IF expectTail = expectSentinel
        THEN DequeueRun([q EXCEPT !.tail = expectRemoved])
        ELSE [q |-> [q EXCEPT !.head = expectRemoved],
              ret |-> q.n[expectRemoved].byteTask]

TheQueue == [head |-> qhead, tail |-> qtail, n |-> qn]
QueueBecomes(q) == qhead' = q.head /\ qtail' = q.tail /\ qn' = q.n

\* the lines printed on standard output
SuccessLine(success, id) ==
    [kind |-> "success", id |-> id, success |-> success, feed |-> <<>>]
FeedLine(id, feed) ==
    [kind |-> "feed", id |-> id, success |-> FALSE, feed |-> feed]
ErrorLine == [kind |-> "error", id |-> 0, success |-> FALSE, feed |-> <<>>]

\* showFeedTask: json.Unmarshal(post, &pd) for each post of ShowFeed
PostDataOf(bytes) ==
    IF bytes.bytes THEN [body |-> bytes.Body, timestamp |-> bytes.Timestamp]
    ELSE [body |-> "", timestamp |-> 0]

\* the id a response carries: task.Id
ResponseId_zero(cm) == 0

ResponseId(cm) == cm.Id

\* one task of a block run against the feed h (lines 430-438 with
\* addPostTask, removePostTask, containsPostTask, showFeedTask):
\* the heap it leaves and the lines it prints
RunTask_answersAll(h, cm) ==
    IF cm.Command = "ADD"
    THEN [heap |-> AddPost(h, cm.Body, cm.Timestamp),
          print |-> SetToBag({SuccessLine(TRUE, ResponseId(cm))})]
    ELSE IF cm.Command = "REMOVE"
    THEN LET r == RemovePost(h, cm.Timestamp)
         IN  [heap |-> r.heap, print |-> SetToBag({SuccessLine(r.ret, ResponseId(cm))})]
    ELSE IF cm.Command = "CONTAINS"
    THEN [heap |-> h,
          print |-> SetToBag({SuccessLine(ContainsPost(h, cm.Timestamp), ResponseId(cm))})]
    ELSE IF cm.Command = "FEED"
    THEN LET f == ShowFeed(h)
             bad == {i \in 1 .. Len(f) : ~f[i].bytes}
         IN  [heap |-> h,
              print |-> SetToBag({FeedLine(ResponseId(cm), [i \in 1 .. Len(f) |-> PostDataOf(f[i])])})
                        (+) [e \in (IF bad = {} THEN {} ELSE {ErrorLine}) |-> Cardinality(bad)]]
    ELSE [heap |-> h, print |-> SetToBag({SuccessLine(FALSE, ResponseId(cm))})]

RunTask(h, cm) ==
    IF cm.Command = "ADD"
    THEN [heap |-> AddPost(h, cm.Body, cm.Timestamp),
          print |-> SetToBag({SuccessLine(TRUE, ResponseId(cm))})]
    ELSE IF cm.Command = "REMOVE"
    THEN LET r == RemovePost(h, cm.Timestamp)
         IN  [heap |-> r.heap, print |-> SetToBag({SuccessLine(r.ret, ResponseId(cm))})]
    ELSE IF cm.Command = "CONTAINS"
    THEN [heap |-> h,
          print |-> SetToBag({SuccessLine(ContainsPost(h, cm.Timestamp), ResponseId(cm))})]
    ELSE IF cm.Command = "FEED"
    THEN LET f == ShowFeed(h)
             bad == {i \in 1 .. Len(f) : ~f[i].bytes}
         IN  [heap |-> h,
              print |-> SetToBag({FeedLine(ResponseId(cm), [i \in 1 .. Len(f) |-> PostDataOf(f[i])])})
                        (+) [e \in (IF bad = {} THEN {} ELSE {ErrorLine}) |-> Cardinality(bad)]]
    ELSE [heap |-> h, print |-> EmptyBag]

\* the wait test of consumer, line 396
ShouldWait_noDone(n, d) == n = 0

ShouldWait(n, d) == n = 0 /\ ~d

\* the exit test of consumer, line 422, taken once doneBool was read true
ExitNow_always(n) == TRUE

ExitNow(n) == n = 0

\* ctx.cond.Signal(): the sets of workers parked afterwards
SignalLeaves(parked) ==
    IF parked = {} THEN {parked} ELSE {parked \ {w} : w \in parked}

\* ctx.cond.Broadcast(): the set of workers parked afterwards
BroadcastLeaves_one(parked) ==
    IF parked = {} THEN {} ELSE parked \ {CHOOSE w \in parked : TRUE}

BroadcastLeaves(parked) == {}

\* the values the read of *ctx.doneBool at line 421 can give.  The read is
\* not ordered with the producer's write by any lock: until the worker has
\* locked ctx.mutex after the write it may still see false.
DoneReads(w) ==
    IF doneBool /\ ~wsync[w] THEN {TRUE, FALSE} ELSE {doneBool}

Parked == {w \in Workers : wpc[w] = "parked"}
Wake(stillParked) ==
    wpc' = [w \in WorkerIds |->
              IF wpc[w] = "parked" /\ w \notin stillParked THEN "woken" ELSE wpc[w]]

\* what a step of the producer or of a consumer leaves alone
CoordFrame == UNCHANGED <<rwVars, adding, last, live, fcVars, qopVars>>

CoordInit ==
    /\ nArgs = 2
    /\ nWorkers \in 1 .. MaxWorkers
    /\ blockSize \in 1 .. MaxBlock
    /\ numOfTasks = 0
    /\ doneBool = FALSE
    /\ mutex = NoOne
    /\ ppc = "p457"
    /\ cur = NoLine
    /\ reqs = <<>>
    /\ wpc = [w \in WorkerIds |-> IF w <= nWorkers THEN "w392" ELSE "none"]
    /\ wblock = [w \in WorkerIds |-> <<>>]
    /\ wi = [w \in WorkerIds |-> 0]
    /\ wexit = [w \in WorkerIds |-> FALSE]
    /\ wsync = [w \in WorkerIds |-> TRUE]
    /\ out = EmptyBag

coordConfig == <<nArgs, nWorkers, blockSize>>
workerLocals == <<wblock, wi, wexit>>

\* producer, lines 457-465: a line is scanned and its command parsed
PScan(lines) ==
    /\ ppc = "p457"
    /\ \E line \in lines :
          LET u == Unmarshal(line)
          IN  /\ cur' = line
              /\ out' = IF u.err THEN out (+) SetToBag({ErrorLine}) ELSE out
              /\ IF u.cm.Command # "DONE"
                 THEN ppc' = "p466" /\ reqs' = Append(reqs, line)
                 ELSE ppc' = "p470" /\ reqs' = reqs
    /\ UNCHANGED <<coordConfig, numOfTasks, doneBool, mutex, wpc, workerLocals, wsync>>
    /\ UNCHANGED <<queueVars, posts>>
    /\ CoordFrame

\* the lines SpecCoord feeds the producer: at most MaxLines well-formed
\* requests, then DONE
PScanRequests ==
    PScan((IF Len(reqs) < MaxLines THEN Requests(Len(reqs) + 1) ELSE {})
          \cup {DoneLine})

\* line 466: queue.Enqueue(taskJSONBytes); the line is not used again
P466 ==
    /\ ppc = "p466"
    /\ QueueBecomes(EnqueueRun(TheQueue, cur))
    /\ cur' = NoLine
    /\ ppc' = "p467"
    /\ UNCHANGED <<coordConfig, numOfTasks, doneBool, mutex, reqs, wpc,
                   workerLocals, wsync, out, posts>>
    /\ CoordFrame

\* line 467: atomic.AddInt64(ctx.numOfTasks, 1)
P467 ==
    /\ ppc = "p467"
    /\ numOfTasks' = numOfTasks + 1
    /\ ppc' = "p468"
    /\ UNCHANGED <<coordConfig, doneBool, mutex, cur, reqs, wpc, workerLocals,
                   wsync, out, queueVars, posts>>
    /\ CoordFrame

\* line 468: ctx.cond.Signal()
P468 ==
    /\ ppc = "p468"
    /\ \E s \in SignalLeaves(Parked) : Wake(s)
    /\ ppc' = "p457"
    /\ UNCHANGED <<coordConfig, numOfTasks, doneBool, mutex, cur, reqs,
                   workerLocals, wsync, out, queueVars, posts>>
    /\ CoordFrame

\* line 470: ctx.mutex.Lock()
P470 ==
    /\ ppc = "p470" /\ mutex = NoOne
    /\ mutex' = Producer
    /\ ppc' = "p471"
    /\ UNCHANGED <<coordConfig, numOfTasks, doneBool, cur, reqs, wpc, workerLocals,
                   wsync, out, queueVars, posts>>
    /\ CoordFrame

\* line 471: *ctx.doneBool = true
P471 ==
    /\ ppc = "p471"
    /\ doneBool' = TRUE
    /\ wsync' = [w \in WorkerIds |-> FALSE]
    /\ ppc' = "p472"
    /\ UNCHANGED <<coordConfig, numOfTasks, mutex, cur, reqs, wpc, workerLocals,
                   out, queueVars, posts>>
    /\ CoordFrame

\* line 472: ctx.cond.Broadcast()
P472 ==
    /\ ppc = "p472"
    /\ Wake(BroadcastLeaves(Parked))
    /\ ppc' = "p473"
    /\ UNCHANGED <<coordConfig, numOfTasks, doneBool, mutex, cur, reqs,
                   workerLocals, wsync, out, queueVars, posts>>
    /\ CoordFrame

\* lines 473-474 and the return to main: ctx.mutex.Unlock(); break
P473_resume ==
    /\ ppc = "p473"
    /\ mutex' = NoOne
    /\ ppc' = "p457"
    /\ UNCHANGED <<coordConfig, numOfTasks, doneBool, cur, reqs, wpc, workerLocals,
                   wsync, out, queueVars, posts>>
    /\ CoordFrame

P473 ==
    /\ ppc = "p473"
    /\ mutex' = NoOne
    /\ ppc' = "p539"
    /\ UNCHANGED <<coordConfig, numOfTasks, doneBool, cur, reqs, wpc, workerLocals,
                   wsync, out, queueVars, posts>>
    /\ CoordFrame

\* main, line 539: wg.Wait() returns once every consumer called wg.Done()
P539 ==
    /\ ppc = "p539"
    /\ \A w \in Workers : wpc[w] = "exited"
    /\ ppc' = "finished"
    /\ UNCHANGED <<coordConfig, numOfTasks, doneBool, mutex, cur, reqs, wpc,
                   workerLocals, wsync, out, queueVars, posts>>
    /\ CoordFrame

WGoto(w, pos) == wpc' = [wpc EXCEPT ![w] = pos]

\* consumer, lines 389-392: exit := false; ctx.mutex.Lock()
W392(w) ==
    /\ wpc[w] = "w392" /\ mutex = NoOne
    /\ mutex' = w
    /\ wexit' = [wexit EXCEPT ![w] = FALSE]
    /\ wsync' = [wsync EXCEPT ![w] = TRUE]
    /\ WGoto(w, "w396")
    /\ UNCHANGED <<coordConfig, numOfTasks, doneBool, ppc, cur, reqs, wblock, wi,
                   out, queueVars, posts>>
    /\ CoordFrame

\* line 396: the wait test, with ctx.mutex held
W396(w) ==
    /\ wpc[w] = "w396"
    /\ WGoto(w, IF ShouldWait(numOfTasks, doneBool) THEN "w397" ELSE "w400")
    /\ UNCHANGED <<coordConfig, numOfTasks, doneBool, mutex, ppc, cur, reqs,
                   workerLocals, wsync, out, queueVars, posts>>
    /\ CoordFrame

\* line 397: ctx.cond.Wait() puts the goroutine on the condition's list,
\* unlocks ctx.mutex and parks; a Signal sent before this step finds no one
W397(w) ==
    /\ wpc[w] = "w397"
    /\ mutex' = NoOne
    /\ WGoto(w, "parked")
    /\ UNCHANGED <<coordConfig, numOfTasks, doneBool, ppc, cur, reqs, workerLocals,
                   wsync, out, queueVars, posts>>
    /\ CoordFrame

\* the tail of ctx.cond.Wait(): c.L.Lock() once signalled
WRewake(w) ==
    /\ wpc[w] = "woken" /\ mutex = NoOne
    /\ mutex' = w
    /\ wsync' = [wsync EXCEPT ![w] = TRUE]
    /\ WGoto(w, "w400")
    /\ UNCHANGED <<coordConfig, numOfTasks, doneBool, ppc, cur, reqs, workerLocals,
                   out, queueVars, posts>>
    /\ CoordFrame

\* lines 400-404: ctx.mutex.Unlock(); var blockOfTasks; i := 0
W400(w) ==
    /\ wpc[w] = "w400"
    /\ mutex' = NoOne
    /\ wblock' = [wblock EXCEPT ![w] = <<>>]
    /\ wi' = [wi EXCEPT ![w] = 0]
    /\ WGoto(w, IF 0 < blockSize THEN "w406" ELSE "w421")
    /\ UNCHANGED <<coordConfig, numOfTasks, doneBool, ppc, cur, reqs, wexit,
                   wsync, out, queueVars, posts>>
    /\ CoordFrame

\* lines 405-415: json.Unmarshal(queue.Dequeue(), &cm); the two breaks;
\* blockOfTasks = append(blockOfTasks, cm)
W406(w) ==
    /\ wpc[w] = "w406"
    /\ LET d == DequeueRun(TheQueue)
           u == Unmarshal(d.ret)
       IN  /\ QueueBecomes(d.q)
           /\ IF u.err
              THEN /\ out' = out (+) SetToBag({ErrorLine})
                   /\ wblock' = wblock
                   /\ WGoto(w, "w421")
              ELSE IF u.cm.Value = "sentinel"
              THEN /\ out' = out
                   /\ wblock' = wblock
                   /\ WGoto(w, "w421")
              ELSE /\ out' = out
                   /\ wblock' = [wblock EXCEPT ![w] = Append(@, u.cm)]
                   /\ WGoto(w, "w416")
    /\ UNCHANGED <<coordConfig, numOfTasks, doneBool, mutex, ppc, cur, reqs, wi,
                   wexit, wsync, posts>>
    /\ CoordFrame

\* line 416 and the loop's i++; i < block
W416_more(w) ==
    /\ wpc[w] = "w416"
    /\ numOfTasks' = numOfTasks - 1
    /\ wi' = [wi EXCEPT ![w] = @ + 1]
    /\ WGoto(w, IF wi[w] + 1 <= blockSize THEN "w406" ELSE "w421")
    /\ UNCHANGED <<coordConfig, doneBool, mutex, ppc, cur, reqs, wblock, wexit,
                   wsync, out, queueVars, posts>>
    /\ CoordFrame

W416(w) ==
    /\ wpc[w] = "w416"
    /\ numOfTasks' = numOfTasks - 1
    /\ wi' = [wi EXCEPT ![w] = @ + 1]
    /\ WGoto(w, IF wi[w] + 1 < blockSize THEN "w406" ELSE "w421")
    /\ UNCHANGED <<coordConfig, doneBool, mutex, ppc, cur, reqs, wblock, wexit,
                   wsync, out, queueVars, posts>>
    /\ CoordFrame

\* line 421: if *ctx.doneBool
W421(w) ==
    /\ wpc[w] = "w421"
    /\ \E d \in DoneReads(w) : WGoto(w, IF d THEN "w422" ELSE "w428")
    /\ UNCHANGED <<coordConfig, numOfTasks, doneBool, mutex, ppc, cur, reqs,
                   workerLocals, wsync, out, queueVars, posts>>
    /\ CoordFrame

\* lines 422-424: if atomic.LoadInt64(ctx.numOfTasks) == 0 { exit = true }
W422(w) ==
    /\ wpc[w] = "w422"
    /\ wexit' = [wexit EXCEPT ![w] = ExitNow(numOfTasks)]
    /\ WGoto(w, "w428")
    /\ UNCHANGED <<coordConfig, numOfTasks, doneBool, mutex, ppc, cur, reqs,
                   wblock, wi, wsync, out, queueVars, posts>>
    /\ CoordFrame

\* lines 428-440, one round of the range loop: the next task of the block
WRunTask_lifo(w) ==
    /\ wpc[w] = "w428" /\ wblock[w] # <<>>
    /\ LET r == RunTask(posts, wblock[w][Len(wblock[w])])
       IN  /\ posts' = r.heap
           /\ out' = out (+) r.print
    /\ wblock' = [wblock EXCEPT ![w] = SubSeq(@, 1, Len(@) - 1)]
    /\ UNCHANGED <<coordConfig, numOfTasks, doneBool, mutex, ppc, cur, reqs, wpc,
                   wi, wexit, wsync, queueVars>>
    /\ CoordFrame

WRunTask(w) ==
    /\ wpc[w] = "w428" /\ wblock[w] # <<>>
    /\ LET r == RunTask(posts, Head(wblock[w]))
       IN  /\ posts' = r.heap
           /\ out' = out (+) r.print
    /\ wblock' = [wblock EXCEPT ![w] = Tail(@)]
    /\ UNCHANGED <<coordConfig, numOfTasks, doneBool, mutex, ppc, cur, reqs, wpc,
                   wi, wexit, wsync, queueVars>>
    /\ CoordFrame

\* lines 442-447: if exit { break }; ctx.wg.Done()
W442(w) ==
    /\ wpc[w] = "w428" /\ wblock[w] = <<>>
    /\ WGoto(w, IF wexit[w] THEN "exited" ELSE "w392")
    /\ UNCHANGED <<coordConfig, numOfTasks, doneBool, mutex, ppc, cur, reqs,
                   workerLocals, wsync, out, queueVars, posts>>
    /\ CoordFrame

PNext ==
    \/ PScanRequests \/ P466 \/ P467 \/ P468
    \/ P470 \/ P471 \/ P472 \/ P473 \/ P539

WNext(w) ==
    \/ W392(w) \/ W396(w) \/ W397(w) \/ WRewake(w) \/ W400(w) \/ W406(w) \/ W416(w)
    \/ W421(w) \/ W422(w) \/ WRunTask(w) \/ W442(w)

CoordNext == PNext \/ \E w \in WorkerIds : WNext(w)

-----------------------------------------------------------------------------
(***************************************************************************)
(* Other inputs.  The producer enqueues every line whose Command is not    *)
(* "DONE" (line 465), whatever else the line holds, so the coordinator is  *)
(* also run on lines that are not requests.                                *)
(***************************************************************************)

\* a line that is not JSON; its text is kept in body, no key can be read
MalformedLine == [NoBytes EXCEPT !.body = "{"]

\* producer, lines 457-465, on requests and lines that are not JSON
PScanMalformed ==
    PScan((IF Len(reqs) < MaxLines
           THEN Requests(Len(reqs) + 1) \cup {MalformedLine} ELSE {})
          \cup {DoneLine})

PNextMalformed ==
    \/ PScanMalformed \/ P466 \/ P467 \/ P468
    \/ P470 \/ P471 \/ P472 \/ P473 \/ P539

CoordNextMalformed == PNextMalformed \/ \E w \in WorkerIds : WNext(w)

\* a line that is JSON and whose command is none of the five
UnknownLine(id) == RawLine("LIKE", id, "b", 1)

\* producer, lines 457-465, on requests and lines with an unknown command
PScanUnknown ==
    PScan((IF Len(reqs) < MaxLines
           THEN Requests(Len(reqs) + 1) \cup {UnknownLine(Len(reqs) + 1)} ELSE {})
          \cup {DoneLine})

PNextUnknown ==
    \/ PScanUnknown \/ P466 \/ P467 \/ P468
    \/ P470 \/ P471 \/ P472 \/ P473 \/ P539

CoordNextUnknown == PNextUnknown \/ \E w \in WorkerIds : WNext(w)

\* a request whose JSON also carries the key "value" with the value "sentinel"
SentinelValued(line) == [line EXCEPT !.value = "sentinel"]

\* producer, lines 457-465, on requests with and without that key
PScanSentinelValued ==
    PScan((IF Len(reqs) < MaxLines
           THEN Requests(Len(reqs) + 1)
                \cup {SentinelValued(r) : r \in Requests(Len(reqs) + 1)}
           ELSE {})
          \cup {DoneLine})

PNextSentinelValued ==
    \/ PScanSentinelValued \/ P466 \/ P467 \/ P468
    \/ P470 \/ P471 \/ P472 \/ P473 \/ P539

CoordNextSentinelValued == PNextSentinelValued \/ \E w \in WorkerIds : WNext(w)

\* producer, line 457, when standard input has ended: scanner.Scan() is
\* false, the loop ends and producer returns to main, which goes on to
\* wg.Wait() at line 539
PEof_done ==
    /\ ppc = "p457"
    /\ doneBool' = TRUE
    /\ cur' = NoLine
    /\ ppc' = "p539"
    /\ UNCHANGED <<coordConfig, numOfTasks, mutex, reqs, wpc, workerLocals,
                   wsync, out, queueVars, posts>>
    /\ CoordFrame

PEof ==
    /\ ppc = "p457"
    /\ doneBool' = doneBool
    /\ cur' = NoLine
    /\ ppc' = "p539"
    /\ UNCHANGED <<coordConfig, numOfTasks, mutex, reqs, wpc, workerLocals,
                   wsync, out, queueVars, posts>>
    /\ CoordFrame

\* the producer on an input that may end after any line, with or without DONE
PNextEof == PNext \/ PEof

CoordNextEof == PNextEof \/ \E w \in WorkerIds : WNext(w)

-----------------------------------------------------------------------------
(***************************************************************************)
(* main from its first line: the choice of the mode by len(os.Args), the   *)
(* sequential loop of lines 493-513 and the start of the concurrent mode.  *)
(***************************************************************************)

MaxArgs == 3       \* the program is started with 0 .. MaxArgs arguments

\* lines 483-489: the feed and the queue are made, nothing has run yet
MainInit ==
    /\ nArgs \in 0 .. MaxArgs
    /\ nWorkers \in (IF nArgs = 2 THEN 1 .. MaxWorkers ELSE {1})
    /\ blockSize \in (IF nArgs = 2 THEN 1 .. MaxBlock ELSE {1})
    /\ numOfTasks = 0
    /\ doneBool = FALSE
    /\ mutex = NoOne
    /\ ppc = "m492"
    /\ cur = NoLine
    /\ reqs = <<>>
    /\ wpc = [w \in WorkerIds |-> "none"]
    /\ wblock = [w \in WorkerIds |-> <<>>]
    /\ wi = [w \in WorkerIds |-> 0]
    /\ wexit = [w \in WorkerIds |-> FALSE]
    /\ wsync = [w \in WorkerIds |-> TRUE]
    /\ out = EmptyBag

\* line 492: if len(os.Args) != 3 { sequential } else { concurrent }
SequentialMode(args) == args + 1 # 3

M492 ==
    /\ ppc = "m492"
    /\ ppc' = IF SequentialMode(nArgs) THEN "s494" ELSE "m517"
    /\ UNCHANGED <<coordConfig, numOfTasks, doneBool, mutex, cur, reqs, wpc,
                   workerLocals, wsync, out, queueVars, posts>>
    /\ CoordFrame

\* lines 494-498 and 510-512: a line is scanned and parsed; DONE ends the loop
S494 ==
    /\ ppc = "s494"
    /\ \E line \in (IF Len(reqs) < MaxLines THEN Requests(Len(reqs) + 1) ELSE {})
                   \cup {DoneLine} :
          IF Unmarshal(line).cm.Command = "DONE"
          THEN ppc' = "finished" /\ cur' = NoLine /\ reqs' = reqs
          ELSE ppc' = "s502" /\ cur' = line /\ reqs' = Append(reqs, line)
    /\ UNCHANGED <<coordConfig, numOfTasks, doneBool, mutex, wpc, workerLocals,
                   wsync, out, queueVars, posts>>
    /\ CoordFrame

\* lines 502-509: the task of the line is run at once
S502 ==
    /\ ppc = "s502"
    /\ LET r == RunTask(posts, Unmarshal(cur).cm)
       IN  /\ posts' = r.heap
           /\ out' = out (+) r.print
    /\ cur' = NoLine
    /\ ppc' = "s494"
    /\ UNCHANGED <<coordConfig, numOfTasks, doneBool, mutex, reqs, wpc,
                   workerLocals, wsync, queueVars>>
    /\ CoordFrame

\* lines 517-534: the arguments are parsed and the consumers spawned
M517 ==
    /\ ppc = "m517"
    /\ wpc' = [w \in WorkerIds |-> IF w <= nWorkers THEN "w392" ELSE "none"]
    /\ ppc' = "p457"
    /\ UNCHANGED <<coordConfig, numOfTasks, doneBool, mutex, cur, reqs,
                   workerLocals, wsync, out, queueVars, posts>>
    /\ CoordFrame

MainNext == M492 \/ S494 \/ S502 \/ M517 \/ CoordNext

-----------------------------------------------------------------------------
(* The specifications *)

Init == RWInit /\ FeedInit /\ FcInit /\ QueueInit /\ QopInit /\ CoordInit

\* SpecRW starts from the constructed program with the configuration fixed
RWOnlyInit ==
    /\ RWInit /\ FeedInit /\ FcInit /\ QueueInit /\ QopInit /\ CoordInit
    /\ nWorkers = 1 /\ blockSize = 1

SpecRW == RWOnlyInit /\ [][RWNext]_vars

SpecFeed == RWOnlyInit /\ [][FeedNext]_vars

\* the program from the first line of main
ProgramInit == RWInit /\ FeedInit /\ FcInit /\ QueueInit /\ QopInit /\ MainInit

SpecMain == ProgramInit /\ [][MainNext]_vars

\* the feed called with any timestamp
SpecFeedAny == RWOnlyInit /\ [][FeedAnyNext]_vars

\* the feed's methods called by concurrent threads
SpecFeedThreads == RWOnlyInit /\ [][FeedThreadsNext]_vars

SpecQueue == RWOnlyInit /\ [][QueueNext]_vars

\* the queue with any thread enqueuing
SpecQueueMany == RWOnlyInit /\ [][QueueNextMany]_vars

SpecCoord == Init /\ [][CoordNext]_vars

\* Go's scheduler runs every runnable goroutine again and again
SpecCoordFair ==
    /\ Init
    /\ [][CoordNext]_vars
    /\ WF_vars(PNext)
    /\ \A w \in WorkerIds : WF_vars(WNext(w))

\* the coordinator on requests and lines that are not JSON
SpecCoordMalformedFair ==
    /\ Init
    /\ [][CoordNextMalformed]_vars
    /\ WF_vars(PNextMalformed)
    /\ \A w \in WorkerIds : WF_vars(WNext(w))

\* the coordinator on requests and lines with an unknown command
SpecCoordUnknownFair ==
    /\ Init
    /\ [][CoordNextUnknown]_vars
    /\ WF_vars(PNextUnknown)
    /\ \A w \in WorkerIds : WF_vars(WNext(w))

\* the coordinator on an input that may end without DONE
SpecCoordEofFair ==
    /\ Init
    /\ [][CoordNextEof]_vars
    /\ WF_vars(PNextEof)
    /\ \A w \in WorkerIds : WF_vars(WNext(w))

\* the coordinator on requests that may carry "value": "sentinel"
SpecCoordSentinelValued == Init /\ [][CoordNextSentinelValued]_vars

-----------------------------------------------------------------------------
(* What the properties below look at *)

\* the feed as the list of node ids from start to the last node
FeedList == ListFrom(posts, start)

\* the elements of a sequence with their multiplicities
BagOfSeq(s) ==
    [x \in {s[i] : i \in DOMAIN s} |-> Cardinality({i \in DOMAIN s : s[i] = x})]

\* a is b with some elements left out
RECURSIVE IsSubseq(_, _)
IsSubseq(a, b) ==
    IF a = <<>> THEN TRUE
    ELSE IF b = <<>> THEN FALSE
    ELSE IF Head(a) = Head(b) THEN IsSubseq(Tail(a), Tail(b))
    ELSE IsSubseq(a, Tail(b))

\* what the dequeuers 1 .. k received, one after the other
RECURSIVE GotUpTo(_)
GotUpTo(k) == IF k = 0 THEN <<>> ELSE GotUpTo(k - 1) \o got[k]

QueueQuiet == \A t \in QThreads : qpc[t] = "idle"
QueueEmpty == qn[qhead].next = Nil

\* the number of responses printed with the id i
Responses(i) ==
    BagCardinality([r \in {x \in BagToSet(out) : x.id = i} |-> out[r]])

-----------------------------------------------------------------------------
(* The properties *)

\* C1: no state has a thread between Lock return and Unlock while a thread is
\* between RLock return and the end of RUnlock, and no state has two threads
\* between Lock return and Unlock.
C1_MutualExclusion ==
    /\ rwAt["writing"] <= 1
    /\ rwAt["writing"] = 1 => rwAt["reading"] + rwAt["ru_held"] = 0

\* a writer is in its critical section while the other writer, which had
\* parked behind readers and was signalled, contends for the lock
C1_Witness == rwAt["writing"] = 1 /\ rwAt["w_woken"] >= 1

\* C2: under fair scheduling, only the requests read before DONE are answered,
\* each at most once, with its id and the kind of line its command calls for;
\* and in the end main's wg.Wait() has returned, every worker has left its loop
\* and every request read has exactly one response.
C2_Complete ==
    /\ [](\A r \in BagToSet(out) :
            /\ r.id \in 1 .. Len(reqs)
            /\ Responses(r.id) = 1
            /\ r.kind = IF reqs[r.id].command = "FEED" THEN "feed" ELSE "success")
    /\ <>[](/\ ppc = "finished"
            /\ \A w \in Workers : wpc[w] = "exited"
            /\ \A i \in 1 .. Len(reqs) : Responses(i) = 1)

\* the program has ended with several workers and several requests answered
C2_Witness ==
    /\ ppc = "finished" /\ nWorkers >= 2 /\ Len(reqs) >= 2
    /\ \A i \in 1 .. Len(reqs) : Responses(i) = 1

\* C3: with one enqueuer, once every call has returned and the queue is empty,
\* the payloads the dequeuers received are, with multiplicities, the payloads
\* enqueued, and each dequeuer's payloads are a subsequence of the enqueue order.
C3_QueueFifoSPMC ==
    (QueueQuiet /\ QueueEmpty) =>
        /\ BagOfSeq(GotUpTo(NDeq)) = BagOfSeq(enqSeq)
        /\ \A d \in Dequeuers : IsSubseq(got[d], enqSeq)

\* all payloads were enqueued and two dequeuers shared them
C3_Witness ==
    /\ QueueQuiet /\ QueueEmpty /\ Len(enqSeq) >= 3
    /\ got[1] # <<>> /\ got[2] # <<>>

C5_ContainsIffLive ==
    last.op = "Contains" => (last.ok <=> live[last.ts])

\* Contains has found a post in a feed of three posts
C5_Witness == last.op = "Contains" /\ last.ok /\ Len(FeedList) = 5

\* C6: ShowFeed returns one record [Body, Timestamp] for each post between the
\* sentinels, in the reverse of the list order, timestamps strictly decreasing.
C6_ShowFeedNewestFirst ==
    last.op = "ShowFeed" =>
        LET l == FeedList
            n == Len(l) - 2
        IN  /\ Len(last.feed) = n
            /\ \A i \in 1 .. n :
                  last.feed[i] = [bytes |-> TRUE,
                                  Body |-> posts[l[Len(l) - i]].body,
                                  Timestamp |-> posts[l[Len(l) - i]].timestamp]
            /\ \A i \in 1 .. (n - 1) :
                  last.feed[i].Timestamp > last.feed[i + 1].Timestamp

\* ShowFeed has returned a feed of three posts
C6_Witness == last.op = "ShowFeed" /\ Len(last.feed) = 3

\* the list without its i-th node
WithoutNode(l, i) == [j \in 1 .. (Len(l) - 1) |-> IF j < i THEN l[j] ELSE l[j + 1]]

\* C7: Remove(t) returns true exactly when a post with timestamp t is in the
\* feed; it then unlinks that one post and leaves the others and their order as
\* they were; otherwise it returns false and the feed is unchanged.
C7_RemoveExact ==
    [][\A t \in Timestamps :
         FeedRemove(t) =>
           LET before == FeedList
               hits == {i \in 1 .. Len(before) : posts[before[i]].timestamp = t}
           IN  IF hits # {}
               THEN /\ last'.ok
                    /\ \E i \in hits : FeedList' = WithoutNode(before, i)
                    /\ \A i \in 1 .. Len(before) :
                          i \notin hits =>
                            /\ posts'[before[i]].body = posts[before[i]].body
                            /\ posts'[before[i]].timestamp = posts[before[i]].timestamp
               ELSE ~last'.ok /\ posts' = posts]_vars

\* Remove has returned true and left two posts in the feed
C7_Witness == last.op = "Remove" /\ last.ok /\ Len(FeedList) = 4

\* C8: at most 64 + 1 threads are between RLock return and RUnlock entry.
C8_ReaderCap65 == rwAt["reading"] <= MaxReaders + 1

\* 65 threads read and one more is parked in RLock
C8_Witness == rwAt["reading"] = MaxReaders + 1 /\ rwAt["r_wait"] >= 1

\* C9: at most 64 threads are between RLock return and RUnlock entry.
C9_ReaderCap64 == rwAt["reading"] <= MaxReaders

\* C10: once the producer has set doneBool and broadcast, no worker is parked
\* on the condition variable and none is about to park.
C10_NoneParkedAfterBroadcast ==
    ppc \in {"p473", "p539", "finished"} =>
        \A w \in Workers : wpc[w] \notin {"w397", "parked"}

\* DONE was the first line: both workers were parked, no Signal was ever sent,
\* and the Broadcast has made both runnable
C10_Witness ==
    /\ ppc = "p473" /\ reqs = <<>> /\ nWorkers = 2
    /\ \A w \in Workers : wpc[w] = "woken"

\* the requests among the lines read: the positions of reqs that hold one of
\* the four commands
Answerable == {i \in 1 .. Len(reqs) :
                 reqs[i].json /\ reqs[i].command \in {"ADD", "REMOVE", "CONTAINS", "FEED"}}

\* C11: with lines that are not JSON among the input, under fair scheduling,
\* every response answers a well-formed request read before DONE, each request
\* is answered at most once, and in the end main's wg.Wait() has returned,
\* every worker has left its loop and every well-formed request has exactly
\* one response.
C11_MalformedSkipped ==
    /\ [](\A r \in BagToSet(out) :
            r.kind # "error" => r.id \in Answerable /\ Responses(r.id) = 1)
    /\ <>[](/\ ppc = "finished"
            /\ \A w \in Workers : wpc[w] = "exited"
            /\ \A i \in Answerable : Responses(i) = 1)

\* C12: whatever payload the producer enqueued, a worker's Dequeue step leaves
\* the drain loop as on an empty queue only if the queue was empty at that
\* Dequeue; a Dequeue that removed a payload appends it to the worker's block
\* and goes on to the decrement of numOfTasks.
C12_EmptyOnlyWhenEmpty ==
    [][\A w \in WorkerIds :
         W406(w) =>
           IF QueueEmpty
           THEN wpc'[w] = "w421" /\ qhead' = qhead /\ wblock' = wblock
           ELSE /\ wpc'[w] = "w416"
                /\ qhead' # qhead
                /\ Len(wblock'[w]) = Len(wblock[w]) + 1]_vars

\* a step of thread t inside Dequeue
DeqStep(t) ==
    \/ Deq250(t) \/ Deq251(t) \/ Deq252(t) \/ Deq255(t)
    \/ Deq267(t) \/ Deq273(t) \/ DeqReturn(t)

\* C13: a Dequeue that reads expectSentinel.next (line 251) reads nil when the
\* queue is empty, and only then if the head test of line 255 is to pass; from
\* that read on the call writes neither head, tail nor any next pointer, and
\* it returns bytes in which the worker finds Value = "sentinel"; no step of
\* Dequeue ever waits for another thread.
C13_EmptyDequeue ==
    /\ [][\A t \in Dequeuers :
            /\ (Deq251(t) /\ QueueEmpty /\ qloc[t].expectSentinel = qhead)
                   => qloc'[t].expectRemoved = Nil
            /\ (Deq251(t) /\ qloc'[t].expectRemoved = Nil)
                   => QueueEmpty /\ qloc[t].expectSentinel = qhead
            /\ ((Deq252(t) \/ Deq255(t)) /\ qloc[t].expectRemoved = Nil)
                   => /\ UNCHANGED queueVars
                      /\ qpc'[t] \in {"d255", "d250", "ret"}
            /\ (Deq255(t) /\ qloc[t].expectRemoved = Nil /\ qpc'[t] = "ret")
                   => /\ ~Unmarshal(qloc'[t].result).err
                      /\ Unmarshal(qloc'[t].result).cm.Value = "sentinel"
            /\ (DeqReturn(t) /\ Unmarshal(qloc[t].result).cm.Value = "sentinel")
                   => UNCHANGED queueVars /\ got' = got]_vars
    /\ [](\A t \in Dequeuers : qpc[t] # "idle" => ENABLED DeqStep(t))

\* a Dequeue is returning the sentinel bytes it chose when the queue was empty,
\* and a payload has been linked since
C13_Witness ==
    \E t \in Dequeuers :
        /\ qpc[t] = "ret" /\ qloc[t].result = SentinelBytes
        /\ ~QueueEmpty

\* the tasks linked so far, from the node NewQueue made; the payloads of the
\* nodes l[a + 1] .. l[b]
Linked == ListFrom(qn, 1)
PayloadsOf(l, a, b) == [k \in 1 .. (b - a) |-> qn[l[a + k]].byteTask]
HeadAt == CHOOSE k \in 1 .. Len(Linked) : Linked[k] = qhead

\* C14: with several enqueuers and dequeuers, the linked list changes only by
\* the successful CAS of a nil next pointer (line 228), which appends the
\* caller's task at its end, so the list is the enqueue order; head changes
\* only by the successful CAS of line 273, which moves it to the next task of
\* the list and returns that task's payload, so the payloads dequeued are, in
\* the order of these CASes, the payloads of the list up to head: a prefix of
\* the enqueue order.  Head and tail stay on the list, tail never behind head,
\* and once all calls have returned the callers hold exactly that prefix.
C14_LinearizableFifo ==
    /\ [][\A t \in QThreads :
            /\ (Enq228Cas(t) /\ qpc'[t] = "e232")
                   => ListFrom(qn', 1) = Append(Linked, qloc[t].newTask)
            /\ (Deq273(t) /\ qpc'[t] = "ret")
                   => /\ qhead' = Linked[HeadAt + 1]
                      /\ qloc'[t].result = qn[qhead'].byteTask
            /\ (ListFrom(qn', 1) # Linked)
                   => \E u \in QThreads : Enq228Cas(u) /\ qpc'[u] = "e232"
            /\ (qhead' # qhead)
                   => \E u \in QThreads : Deq273(u) /\ qpc'[u] = "ret"]_vars
    /\ [](/\ \E k \in 1 .. Len(Linked) : Linked[k] = qhead
          /\ \E k \in HeadAt .. Len(Linked) : Linked[k] = qtail
          /\ QueueQuiet =>
                BagOfSeq(GotUpTo(NDeq)) = BagOfSeq(PayloadsOf(Linked, 1, HeadAt)))

\* one enqueuer has linked its task and not yet moved tail, the other finds
\* tail behind and is about to help, and a task has already been dequeued
C14_Witness ==
    /\ \E t \in Enqueuers : qpc[t] = "e223"
    /\ \E t \in Enqueuers : qpc[t] = "e232"
    /\ qhead # 1

\* the posts of the heap h between the sentinels, in list order
Contents(h) ==
    LET l == ListFrom(h, start)
    IN  [i \in 1 .. (Len(l) - 2) |->
           [body |-> h[l[i + 1]].body, timestamp |-> h[l[i + 1]].timestamp]]

\* a thread is between RLock return and RUnlock
Reading(w) ==
    floc[w].op \in {"Contains", "ShowFeed"} /\ fpc[w] \in {"first", "walk", "show", "runlock"}

\* what Contains or ShowFeed of thread w gives when run at once on the feed
\* as it is now
AtOnce(w) ==
    IF floc[w].op = "Contains"
    THEN [NoCall EXCEPT !.ok = ContainsPost(posts, floc[w].ts)]
    ELSE [NoCall EXCEPT !.feed = ShowFeed(posts)]

\* C15: with concurrent callers every call takes effect at one instant between
\* its call and its return: the link of an Add and the test of a Remove change
\* the feed, and return, as the whole method run at once at that instant, and
\* nothing else changes the feed; while a reader holds the read lock the feed
\* does not change, and what Contains and ShowFeed return is what they give on
\* the feed as it was while they held the lock.
C15_FeedLinearizable ==
    /\ [][\A w \in FeedThreads :
            /\ FcLink(w) =>
                  Contents(posts') = Contents(AddPost(posts, floc[w].body, floc[w].ts))
            /\ FcTest(w) =>
                  /\ floc'[w].ret = RemovePost(posts, floc[w].ts).ret
                  /\ Contents(posts') = Contents(RemovePost(posts, floc[w].ts).heap)
            /\ (FcReturn(w) /\ floc[w].op \in {"Contains", "ShowFeed"}) =>
                  /\ FcReturnValue(w).ok = floc[w].expect.ok
                  /\ FcReturnValue(w).feed = floc[w].expect.feed
            /\ (Contents(posts') # Contents(posts)) =>
                  \E u \in FeedThreads : FcLink(u) \/ FcTest(u)]_vars
    /\ [](\A w \in FeedThreads : Reading(w) => floc[w].expect = AtOnce(w))

\* Contains has left the read lock having found its post, and before it
\* returns true a Remove has taken the post out of the feed
C15_Witness ==
    \E w \in FeedThreads :
        /\ fpc[w] = "ret" /\ floc[w].op = "Contains"
        /\ floc[w].expect.ok
        /\ ~ContainsPost(posts, floc[w].ts)

\* C16: with lines of unknown command among the input, under fair
\* scheduling: the task of such a line, when a worker runs it, prints nothing
\* and leaves the feed as it is; no response ever carries its id; the line is
\* enqueued, counted and dequeued like a request (numOfTasks returns to 0);
\* and in the end main's wg.Wait() has returned, every worker has left its
\* loop and every request has exactly one response.
C16_UnknownIgnored ==
    /\ [][\A w \in WorkerIds :
            (WRunTask(w) /\ Head(wblock[w]).Command
                               \notin {"ADD", "REMOVE", "CONTAINS", "FEED"})
               => posts' = posts /\ out' = out]_vars
    /\ [](\A r \in BagToSet(out) : r.id \in Answerable /\ Responses(r.id) = 1)
    /\ <>[](/\ ppc = "finished"
            /\ numOfTasks = 0
            /\ \A w \in Workers : wpc[w] = "exited"
            /\ \A i \in 1 .. Len(reqs) :
                  Responses(i) = IF i \in Answerable THEN 1 ELSE 0)

\* the program has ended; the first line had an unknown command and got no
\* response, the second was a request and got one
C16_Witness ==
    /\ ppc = "finished" /\ Len(reqs) = 2
    /\ reqs[1] = UnknownLine(1) /\ Responses(1) = 0
    /\ 2 \in Answerable /\ Responses(2) = 1

\* the producer has read DONE
DoneSeen == ppc \in {"p470", "p471", "p472", "p473", "p539", "finished"}

\* C17: doneBool becomes true only in a step of the producer that holds
\* ctx.mutex before and after it, and never becomes false again; the
\* Broadcast is sent with doneBool true and ctx.mutex held; once DONE is
\* read no line is read and no task is linked to the queue any more; no task
\* of the queue ever holds the DONE line, and every response carries the id
\* of a request read before DONE, at most one response each.
C17_DoneStops ==
    /\ [][/\ doneBool => doneBool'
          /\ (doneBool' # doneBool) => (P471 /\ mutex = Producer /\ mutex' = Producer)
          /\ P472 => (doneBool /\ mutex = Producer)
          /\ DoneSeen =>
                /\ DoneSeen'
                /\ reqs' = reqs
                /\ ListFrom(qn', 1) = ListFrom(qn, 1)]_vars
    /\ [](/\ \A n \in DOMAIN qn : qn[n].byteTask.command # "DONE"
          /\ \A i \in 1 .. Len(reqs) : reqs[i].command # "DONE"
          /\ \A r \in BagToSet(out) : r.id \in 1 .. Len(reqs) /\ Responses(r.id) = 1
          /\ ppc \in {"p472", "p473", "p539", "finished"} => doneBool)

\* the producer has broadcast and still holds ctx.mutex; two requests were
\* read before DONE and one of them is still in the queue
C17_Witness ==
    /\ ppc = "p473" /\ doneBool /\ mutex = Producer
    /\ Len(reqs) = 2 /\ numOfTasks >= 1 /\ ~QueueEmpty

\* C18: in every state reached by calls with any timestamps, start is the
\* -Inf sentinel, the list from start ends, at a post whose next is nil, with
\* the +Inf sentinel NewFeed made (the second post it allocated, body ""),
\* and no walk has followed a nil pointer.
C18_SentinelsStay ==
    LET l == FeedList
    IN  /\ last.op # "panic"
        /\ posts[start].timestamp = NegInf /\ posts[start].body = "null"
        /\ Len(l) >= 2
        /\ l[Len(l)] = NewFeed[start].next
        /\ posts[l[Len(l)]] = NewFeed[NewFeed[start].next]

\* the positions of the list l of heap h that hold the timestamp t
At(h, l, t) == {i \in 1 .. Len(l) : h[l[i]].timestamp = t}

\* C19: an Add(b, t) with a finite t that some post of the feed already
\* carries returns like any Add; the list then is the old list with one new
\* post [b, t] put in immediately before the first post that carried t, so two
\* neighbours carry t and the timestamps no longer increase strictly.
C19_DuplicateLinked ==
    [][\A b \in Bodies, t \in Timestamps :
         (FeedAddAny(b, t) /\ At(posts, FeedList, t) # {} /\ ~WalkPanics(posts, t)) =>
            LET old == FeedList
                k == CHOOSE i \in At(posts, old, t) : \A j \in At(posts, old, t) : i <= j
                new == ListFrom(posts', start)
            IN  /\ last'.op = "Add" /\ last'.ok
                /\ Len(new) = Len(old) + 1
                /\ \A i \in 1 .. (k - 1) : new[i] = old[i]
                /\ \A i \in k .. Len(old) : new[i + 1] = old[i]
                /\ new[k] \notin DOMAIN posts
                /\ posts'[new[k]].body = b
                /\ posts'[new[k]].timestamp = t
                /\ posts'[new[k + 1]].timestamp = t
                /\ \A n \in DOMAIN posts :
                      /\ posts'[n].body = posts[n].body
                      /\ posts'[n].timestamp = posts[n].timestamp
                /\ ~(\A i \in 2 .. (Len(new) - 1) :
                        posts'[new[i]].timestamp < posts'[new[i + 1]].timestamp)]_vars

\* Add has returned and left two neighbours with the same finite timestamp,
\* the new one with another body than the old one
C19_Witness ==
    /\ last.op = "Add" /\ last.ts \in Timestamps
    /\ \E i \in 2 .. (Len(FeedList) - 1) :
          /\ posts[FeedList[i]].timestamp = last.ts
          /\ posts[FeedList[i + 1]].timestamp = last.ts
          /\ posts[FeedList[i]].body # posts[FeedList[i + 1]].body

\* C20: with no argument main runs the sequential loop, with two it starts
\* the concurrent mode, and with any other number of arguments it reads no
\* line, runs no task and prints no response.
C20_ModeByArgCount ==
    /\ nArgs = 0 => ppc \in {"m492", "s494", "s502", "finished"} /\ wpc = [w \in WorkerIds |-> "none"]
    /\ nArgs = 2 => ppc \notin {"s494", "s502"}
    /\ nArgs \notin {0, 2} =>
          /\ ppc \in {"m492", "finished"}
          /\ reqs = <<>> /\ out = EmptyBag /\ posts = NewFeed

\* C21: a worker appends the task it dequeues at the end of its block, in the
\* order of its Dequeue calls; it runs a task only after the drain loop has
\* ended, and the task it runs is the oldest of the block: that task's
\* response is printed and its effect on the feed made in that step, before
\* the next task of the block is looked at.
C21_BlockInOrder ==
    /\ [][\A w \in WorkerIds :
            /\ (W406(w) /\ wblock'[w] # wblock[w]) =>
                  wblock'[w] = Append(wblock[w],
                                      Unmarshal(qn[qn[qhead].next].byteTask).cm)
            /\ (wblock'[w] # wblock[w] /\ wblock'[w] # <<>> /\ ~W406(w)) =>
                  /\ wpc[w] = "w428" /\ wpc'[w] = "w428"
                  /\ wblock'[w] = Tail(wblock[w])
                  /\ out' = out (+) RunTask(posts, Head(wblock[w])).print
                  /\ posts' = RunTask(posts, Head(wblock[w])).heap
            /\ (wblock'[w] # wblock[w] /\ wblock'[w] = <<>>) =>
                  \/ wpc[w] = "w400"
                  \/ /\ wpc[w] = "w428" /\ Len(wblock[w]) = 1
                     /\ out' = out (+) RunTask(posts, Head(wblock[w])).print
                     /\ posts' = RunTask(posts, Head(wblock[w])).heap]_vars
    /\ [](\A w \in Workers : wpc[w] \in {"w392", "w396", "w397", "parked", "woken", "w400"}
                                => wblock[w] = <<>>)

\* a worker drained two tasks, has run and answered the first and holds the
\* second, not yet answered
C21_Witness ==
    \E w \in Workers :
        /\ wpc[w] = "w428" /\ wi[w] = 2 /\ Len(wblock[w]) = 1
        /\ Head(wblock[w]).Id = 2
        /\ Responses(1) = 1 /\ Responses(2) = 0

\* C22: a worker's exit flag becomes true only at line 422-424, with doneBool
\* true and numOfTasks zero, after its drain loop; it leaves the loop only
\* with the flag set and its block run.  Whenever a worker has the flag set or
\* has left, the producer has read DONE and the queue holds no payload, every
\* request read having been linked and dequeued; once wg.Wait() has returned
\* every worker has left, no block holds a task and every request is answered.
C22_ExitOnlyWhenDrained ==
    /\ [][\A w \in WorkerIds :
            /\ (wexit'[w] /\ ~wexit[w]) =>
                  /\ wpc[w] = "w422" /\ wpc'[w] = "w428"
                  /\ doneBool /\ numOfTasks = 0
            /\ (wpc'[w] = "exited" /\ wpc[w] # "exited") =>
                  wexit[w] /\ wblock[w] = <<>>]_vars
    /\ []((\E w \in Workers : wexit[w] \/ wpc[w] = "exited") =>
              /\ DoneSeen /\ doneBool
              /\ QueueEmpty
              /\ Len(ListFrom(qn, 1)) = Len(reqs) + 1)
    /\ [](ppc = "finished" =>
              /\ \A w \in Workers : wpc[w] = "exited" /\ wblock[w] = <<>>
              /\ \A i \in 1 .. Len(reqs) : Responses(i) = 1)

\* one worker has left its loop while another still holds a dequeued task it
\* has not run
C22_Witness ==
    \E w, v \in Workers :
        /\ wpc[w] = "exited"
        /\ wpc[v] = "w428" /\ wblock[v] # <<>>
        /\ Responses(Head(wblock[v]).Id) = 0

\* C23: no state before DONE has doneBool false, the producer back at its
\* scan after the Enqueue, the increment and the Signal of a task that is
\* still in the queue, and every worker parked in ctx.cond.Wait().
C23_NoLostSignal ==
    ~(/\ ~doneBool /\ ~DoneSeen
      /\ ppc = "p457"
      /\ ~QueueEmpty /\ numOfTasks >= 1
      /\ \A w \in Workers : wpc[w] = "parked")

\* C24: every step that reads or writes *ctx.doneBool is taken by a thread
\* that holds ctx.mutex: the wait test of line 396, the read of line 421 that
\* starts the exit decision, and the producer's write of line 471.
C24_DoneUnderMutex ==
    [][/\ \A w \in WorkerIds : (W396(w) \/ W421(w)) => mutex = w
       /\ P471 => mutex = Producer]_vars

\* the place of the tail on the list, and the payloads the Dequeue calls have
\* taken so far: those kept by the callers and those about to be returned
TailAt == CHOOSE k \in 1 .. Len(Linked) : Linked[k] = qtail
TakenBy(t) ==
    IF qpc[t] = "ret" /\ qloc[t].result # SentinelBytes
    THEN Append(got[t], qloc[t].result) ELSE got[t]
RECURSIVE TakenUpTo(_)
TakenUpTo(t) == IF t = 0 THEN <<>> ELSE TakenUpTo(t - 1) \o TakenBy(t)

\* C25: with several enqueuers and dequeuers, head is a node of the list and
\* the payloads of the nodes up to and including it (the first a dummy) are
\* exactly the payloads the Dequeue calls have taken, so the node after head
\* holds the first payload not yet taken; tail is the last node of the list or
\* the one before it, and never a node before head.
C25_HeadTailShape ==
    /\ \E k \in 1 .. Len(Linked) : Linked[k] = qhead
    /\ \E k \in 1 .. Len(Linked) : Linked[k] = qtail
    /\ BagOfSeq(TakenUpTo(NDeq)) = BagOfSeq(PayloadsOf(Linked, 1, HeadAt))
    /\ TailAt \in {Len(Linked) - 1, Len(Linked)}
    /\ HeadAt <= TailAt

\* tasks have been dequeued and head has caught up with a tail that lags
\* behind a linked task; a dequeuer is about to help the tail forward
C25_Witness ==
    /\ qhead # 1 /\ qhead = qtail /\ qn[qtail].next # Nil
    /\ \E t \in Dequeuers : qpc[t] = "d267" /\ qloc[t].expectSentinel = qhead

\* C26: with several enqueuers and dequeuers, no step removes a queue node or
\* changes a node's payload, and a next pointer changes only from nil, in the
\* successful CAS of line 228, to the task of the caller; a next pointer that
\* is not nil never changes.
C26_NextWrittenOnce ==
    [][\A n \in DOMAIN qn :
          /\ n \in DOMAIN qn'
          /\ qn'[n].byteTask = qn[n].byteTask
          /\ qn[n].next # Nil => qn'[n].next = qn[n].next
          /\ qn'[n].next # qn[n].next =>
                \E t \in Enqueuers :
                    /\ Enq228Cas(t) /\ qpc'[t] = "e232"
                    /\ qn'[n].next = qloc[t].newTask]_vars

\* an enqueuer is at the CAS of line 228 on a node whose next pointer another
\* enqueuer has already set: the CAS is about to fail
C26_Witness ==
    \E t \in Enqueuers :
        /\ qpc[t] = "e228cas"
        /\ qloc[t].expectTailNext = Nil
        /\ qn[qloc[t].linkAt].next # Nil
        /\ qn[qloc[t].linkAt].next # qloc[t].newTask

\* the most steps a call of Enqueue or Dequeue takes to return when its
\* thread runs alone
SoloBound == 14

\* the queue as thread t sees it
SoloView(t) ==
    [head |-> qhead, tail |-> qtail, n |-> qn, pc |-> qpc[t], loc |-> qloc[t]]

\* the thread goes back to the top of its loop
Retries(t) ==
    \/ qpc[t] \in {"e217", "e223", "e228cas"} /\ qpc'[t] = "e213"
    \/ qpc[t] \in {"d255", "d267", "d273"} /\ qpc'[t] = "d250"

\* C27: from every state reached with several enqueuers and dequeuers, a
\* thread inside Enqueue or Dequeue that runs alone returns within SoloBound
\* of its own steps; every step a thread takes inside a call is the step of
\* that solo run, none waits; head, tail and the next pointers change only by
\* a CAS that succeeds; and a thread goes back to the top of its loop only
\* when a word it read has been changed by such a CAS of another thread, or a
\* task another thread linked is not yet behind the tail.
C27_NonBlocking ==
    /\ [](\A t \in QThreads : SoloLeft(SoloView(t), SoloBound) <= SoloBound)
    /\ [][\A t \in QThreads :
            /\ (qpc'[t] # qpc[t] /\ qpc[t] # "idle") =>
                  /\ SoloView(t)' = SoloStep(SoloView(t))
                  /\ SoloLeft(SoloView(t)', SoloBound)
                        = SoloLeft(SoloView(t), SoloBound) - 1
            /\ Retries(t) =>
                  \/ qpc[t] \in {"e217", "e223", "d267"}
                        /\ qtail # qloc[t].expectTail
                  \/ qpc[t] \in {"d255", "d273"} /\ qhead # qloc[t].expectSentinel
                  \/ qpc[t] = "e228cas"
                        /\ qn[qloc[t].linkAt].next \notin {Nil, qloc[t].newTask}
                  \/ qpc[t] \in {"e223", "d267"}
                        /\ qn[qloc[t].expectTail].next # Nil
                        /\ qtail' = qn[qloc[t].expectTail].next
                        /\ qtail' # qloc[t].newTask]_vars
    /\ [][(qhead' # qhead \/ qtail' # qtail
              \/ \E n \in DOMAIN qn : qn'[n].next # qn[n].next) =>
            \E u \in QThreads :
                /\ qpc[u] \in {"e223", "e228cas", "e232", "d267", "d273"}
                /\ qpc'[u] # qpc[u]]_vars

\* a dequeuer has read the head and tail, another thread's step has since
\* linked a task and a third call is under way: run alone, the dequeuer
\* would still need a retry
C27_Witness ==
    \E t \in Dequeuers :
        /\ qpc[t] = "d273" /\ qhead # qloc[t].expectSentinel
        /\ \E u \in Enqueuers : qpc[u] = "e223"
        /\ SoloLeft(SoloView(t), SoloBound) >= 6

\* C28: a worker's block never holds more than blockSize tasks, and the tasks
\* dequeued by the workers and not yet run are never more than blockSize for
\* each worker; a worker calls Dequeue only with fewer than blockSize calls
\* made in this iteration, so at most blockSize times, and a call that
\* returns the sentinel bytes of the empty queue ends the drain loop.
C28_BlockAtMostK ==
    /\ [](\A w \in Workers :
            /\ Len(wblock[w]) <= blockSize
            /\ wi[w] <= blockSize
            /\ Len(wblock[w]) <= wi[w] + 1
            /\ wpc[w] = "w406" => wi[w] < blockSize /\ Len(wblock[w]) = wi[w])
    /\ [][\A w \in WorkerIds :
            /\ W406(w) => wi[w] < blockSize
            /\ (W406(w) /\ QueueEmpty) =>
                  /\ wpc'[w] = "w421" /\ wblock'[w] = wblock[w]
                  /\ UNCHANGED <<qhead, qtail, numOfTasks>>
            /\ wpc'[w] = "w406" => wpc[w] \in {"w406", "w400", "w416"}]_vars

\* a worker with block size 1 has ended its drain loop with one task in its
\* block while another task waits in the queue
C28_Witness ==
    \E w \in Workers :
        /\ blockSize = 1 /\ wpc[w] = "w421"
        /\ Len(wblock[w]) = 1 /\ ~QueueEmpty

\* the payloads in the queue: the nodes linked after head
QueueLength == Len(ListFrom(qn, qhead)) - 1

\* C29: numOfTasks goes up by one only in the producer's step after an
\* Enqueue and down by one only in a worker's step after a Dequeue that gave a
\* task; it is never negative; and whenever the producer is between lines and
\* no worker is between a Dequeue and its decrement, it is the number of
\* payloads in the queue.
C29_TaskCount ==
    /\ [][/\ numOfTasks' > numOfTasks => (P467 /\ numOfTasks' = numOfTasks + 1)
          /\ numOfTasks' < numOfTasks =>
                (numOfTasks' = numOfTasks - 1 /\ \E w \in Workers : W416(w))]_vars
    /\ [](numOfTasks >= 0)
    /\ []((ppc \notin {"p466", "p467"} /\ \A w \in Workers : wpc[w] # "w416")
              => numOfTasks = QueueLength)

\* the threads that hold rw.cond.L: inside Lock, RLock or RUnlock past the
\* acquisition, or between Lock and Unlock
RWHolders == rwAt["r_held"] + rwAt["ru_held"] + rwAt["w_held"] + rwAt["writing"]

\* C30: rw.cond.L is held by at most one thread; readCount changes only by
\* one, up in the step of RLock and down in the step of RUnlock that a thread
\* takes while it holds rw.cond.L; it is never negative, and it is the number
\* of threads that RLock has admitted and whose RUnlock has not yet
\* decremented it.
C30_ReadCountExact ==
    /\ [](/\ RWHolders = (IF rwMu THEN 1 ELSE 0)
          /\ readCount >= 0
          /\ readCount = rwAt["reading"] + rwAt["ru_held"])
    /\ [][readCount' # readCount =>
            /\ rwMu
            /\ \/ RLockTest /\ rwAt["r_held"] = 1 /\ readCount' = readCount + 1
               \/ RUnlockRelease /\ rwAt["ru_held"] = 1 /\ readCount' = readCount - 1]_vars

\* sixty-five readers are in, one of them inside RUnlock holding rw.cond.L
\* and about to decrement, with a writer and a reader parked
C30_Witness ==
    /\ readCount = MaxReaders + 1
    /\ rwMu /\ rwAt["ru_held"] = 1
    /\ rwAt["w_wait"] >= 1 /\ rwAt["r_wait"] >= 1

\* C31: whenever a thread is parked on rw.cond in Lock or RLock, some thread
\* holds the lock as reader or writer, or is on its way: inside Lock, RLock or
\* RUnlock with rw.cond.L held, or woken and about to take rw.cond.L again.
\* So no state has the lock free, every thread idle or parked, and a thread
\* parked: the thread that releases last wakes a waiter.
C31_NoLostWakeup ==
    (rwAt["r_wait"] + rwAt["w_wait"] > 0) =>
        (RWHolders + rwAt["reading"] + rwAt["r_woken"] + rwAt["w_woken"] > 0)

\* sixty-five readers have left; the signals of the RUnlock calls went to the
\* two writers, the last two found both parked, and the sixty-sixth reader
\* is still parked with the lock free
C31_Witness ==
    /\ readCount = 0 /\ ~rwMu
    /\ rwAt["w_woken"] = 2 /\ rwAt["r_wait"] = 1
    /\ rwAt["reading"] = 0

\* the producer has returned at the end of the input, no DONE line read
EndedWithoutDone == ppc \in {"p539", "finished"} /\ cur # DoneLine

\* C32: when the input ends without a DONE line the producer returns with
\* doneBool false, and from then on doneBool stays false, no worker sets its
\* exit flag or leaves its loop, and main stays in wg.Wait(); under fair
\* scheduling every worker ends up parked in ctx.cond.Wait() for good, also
\* when every task read has been dequeued and answered.
C32_NoDoneNoExit ==
    /\ [](EndedWithoutDone =>
             /\ ~doneBool /\ ppc = "p539"
             /\ \A w \in Workers : wpc[w] # "exited" /\ ~wexit[w])
    /\ [][EndedWithoutDone => EndedWithoutDone']_vars
    /\ (EndedWithoutDone ~> [](\A w \in Workers : wpc[w] = "parked"))

\* the input ended after two requests and no DONE: both are answered, the
\* queue is empty, both workers are parked and main waits in wg.Wait()
C32_Witness ==
    /\ EndedWithoutDone /\ Len(reqs) = 2 /\ nWorkers = 2
    /\ \A i \in 1 .. Len(reqs) : Responses(i) = 1
    /\ QueueEmpty /\ numOfTasks = 0
    /\ \A w \in Workers : wpc[w] = "parked"

\* a thread is between Lock return and Unlock
Writing(w) ==
    floc[w].op \in {"Add", "Remove"} /\ fpc[w] \in {"first", "walk", "link", "test", "unlock"}

\* the posts of the list with their bodies, timestamps and next links
FeedPosts(h) ==
    LET l == ListFrom(h, start) IN [i \in 1 .. Len(l) |-> <<l[i], h[l[i]]>>]

\* C33: no step of a Contains or a ShowFeed changes the list of posts, their
\* bodies, timestamps or next links; readCount is the number of threads
\* between RLock return and RUnlock, so a Contains or ShowFeed that returns
\* has taken back its one increment; the write lock is held exactly while one
\* Add or Remove is between Lock return and Unlock, so an Add or a Remove, on
\* either return of Remove, returns with the lock released.
C33_ReadOnlyAndReleased ==
    /\ [][\A w \in FeedThreads :
            (fpc'[w] # fpc[w] /\ floc[w].op \in {"Contains", "ShowFeed"})
               => FeedPosts(posts') = FeedPosts(posts)]_vars
    /\ [](/\ readCount = Cardinality({w \in FeedThreads : Reading(w)})
          /\ rwMu = (\E w \in FeedThreads : Writing(w))
          /\ Cardinality({w \in FeedThreads : Writing(w)}) <= 1
          /\ \A w \in FeedThreads :
                fpc[w] = "ret" => ~Reading(w) /\ ~Writing(w))

\* a ShowFeed that read a post and a Remove that took a post out are both
\* about to return, with no reader counted and the write lock free
C33_Witness ==
    \E w, v \in FeedThreads :
        /\ fpc[w] = "ret" /\ floc[w].op = "ShowFeed" /\ floc[w].feedArray # <<>>
        /\ fpc[v] = "ret" /\ floc[v].op = "Remove" /\ floc[v].ret
        /\ readCount = 0 /\ ~rwMu

=============================================================================
